---------------------------- MODULE Spec2Model ----------------------------
(***************************************************************************)
(* A model of the resume scoring engine of Score-for-Resume-AI.             *)
(*                                                                         *)
(* The repository holds three revisions of ResumeScorer and two of          *)
(* AIKeywordExtractor.  A behaviour of the model runs one configuration:    *)
(*   revision = 1  ResumeScorer of src/resume-parser.js with the            *)
(*                 AIKeywordExtractor of src/ai-keyword-extractor.js        *)
(*   revision = 2  ResumeScorer of src/unnamed/part_000, lines 705-2355     *)
(*                 (AI revision) with the AIKeywordExtractor of src/i18n.js *)
(*   revision = 3  ResumeScorer of src/unnamed/part_000, lines 2565-3779    *)
(*                 (no extractor)                                           *)
(* Operators are named after the methods they model; the suffix 2 or 3      *)
(* marks the method of revision 2 or 3 where its code differs.              *)
(*                                                                         *)
(* Strings.  A resume text is a sequence of lines of Catalogue, joined with *)
(* "\n", in catalogue order.  The regular expressions and substring tests   *)
(* of the code are evaluated on each string of the model beforehand and     *)
(* kept in tables (tools/gen_tables.py ports them one by one); on a text    *)
(* of several lines, a test holds when it holds on one line and a match     *)
(* count is the sum over the lines, which is how the expressions behave on  *)
(* the catalogue since none of them matches across "。\n".  The optional    *)
(* NLP library (compromise) is taken as not loaded.                         *)
(*                                                                         *)
(* Numbers.  Scores of analyzeExperience are multiples of 0.5 and are kept  *)
(* in half points; a GPA is kept in units of 1/2500; a confidence is kept   *)
(* as the exact decimal in units of 1/300 together with the rounding of the *)
(* IEEE double the code computes (see Confidence).                          *)
(***************************************************************************)
EXTENDS Integers, Sequences, FiniteSets, TLC

\* Largest number of catalogue lines in a resume text.
MaxLines == 2

\* Largest number of facts handed to intelligentDeduplication one by one.
MaxFacts == 2

\* Largest number of sentences splitIntoSentences of AIEnhancer yields.
MaxSentences == 2

\* Largest number of degrees in the analysis of a text.
MaxDegrees == 2

\* Largest number of auto-analysis timers that are not yet due.
MaxTimers == 2

\* Largest number of characters of a string handed to a normalizer.
MaxChars == 5

VARIABLES
    revision,     \* which ResumeScorer / AIKeywordExtractor pair the page runs
    isEnabled,    \* AIKeywordExtractor.isEnabled
    text,         \* the resume text of the page
    result,       \* what the last scoreResume call returned (or that it threw)
    facts,        \* the items the passes of the extractor pushed, in push order
    kept,         \* what the last intelligentDeduplication returned
    aiEnabled,    \* AIEnhancer.isEnabled
    model,        \* AIEnhancer.model: "null" or "loaded"
    isLoading,    \* AIEnhancer.isLoading: use.load() is pending
    loads,        \* pending promises of use.load()
    enhance,      \* where the enhanceResumeAnalysis call stands
    enhanced,     \* what the last enhanceResumeAnalysis call returned: "none",
                  \* "null" or "enhanced" (the object with isAIEnhanced)
    isProcessing, \* ResumeScoreApp.isProcessing
    toast,        \* the last toast ResumeScoreApp has shown
    uploading,    \* handleFileUpload calls awaiting ResumeParser.parseFile
    analyzing,    \* analyzeResume calls awaiting their timer
    timers,       \* setTimeout(() => this.analyzeResume(), 500) not yet due
    currentAnalysis, \* ResumeScoreApp.currentAnalysis
    call,         \* a method called on its own, with its arguments
    returned      \* what that call returned

scoringVars == <<revision, isEnabled, text, result>>

enhancerVars == <<aiEnabled, model, isLoading, loads, enhance, enhanced>>

appVars == <<isProcessing, toast, uploading, analyzing, timers, currentAnalysis>>

callVars == <<call, returned>>

vars == <<revision, isEnabled, text, result, facts, kept, aiEnabled, model,
          isLoading, loads, enhance, enhanced, isProcessing, toast, uploading, analyzing,
          timers, currentAnalysis, call, returned>>

(***************************************************************************)
(* Tables                                                                  *)
(***************************************************************************)
\* The resume lines a text is built from, in the order they are joined with "\n":
\*   basic1    姓名：张三，电话：13800138000，邮箱：zhangsan@example.com。
\*   intent    求职意向：产品经理。
\*   basic2    个人博客blog.example.com，微博同名，1999年5月出生，中共党员。
\*   edu1      清华大学 计算机专业 本科，GPA：3.8。
\*   edu2      深圳大学 软件工程 硕士。
\*   skills    熟练掌握Java、Python、JavaScript、C++、Go、React、Vue、HTML、CSS、Docker、Git、Linux，数据分析、SQL、Excel、Tableau、SPSS，Photoshop、Figma、Sketch、Axure，英语、日语、CET-6，运营、销售、PPT，钢琴、摄影、篮球、演讲。
\*   prog4     熟悉Python、React、Docker、Linux。
\*   prog1     会Vue。
\*   intern10  曾在腾讯实习、华为实习、百度实习、阿里实习、字节实习、美团实习、京东实习、小米实习、网易实习、滴滴实习。
\*   project   负责电商项目，完成支付系统项目，参与校园网站项目，设计推荐系统项目。
\*   papers    发表Nature、Science论文各一篇，SCI论文两篇。
\*   ach1      担任学生会主席，获得国家奖学金，获得省级奖学金，ACM竞赛获奖，全国数学建模大赛一等奖，通过CPA考试，CET-6，托福，雅思。
\*   ach2      担任班长，获得校级奖学金。
\*   intern1   实习。
Catalogue ==
    <<"basic1", "intent", "basic2", "edu1", "edu2", "skills", "prog4", "prog1", "intern10", "project", "papers", "ach1", "ach2", "intern1">>

\* String.prototype.length of every string of the model (resume lines, extracted
\* sentences and fact texts, school names, synthetic fact texts):
\*   ""             
\*   basic1.s       姓名：张三，电话：13800138000，邮箱：zhangsan@example.com
\*   basic2.s       个人博客blog.example.com，微博同名，1999年5月出生，中共党员
\*   edu1.s         清华大学 计算机专业 本科，GPA：3.8
\*   edu2.s         深圳大学 软件工程 硕士
\*   skills.s       熟练掌握Java、Python、JavaScript、C++、Go、React、Vue、HTML、CSS、Docker、Git、Linux，数据分析、SQL、Excel、Tableau、SPSS，Photoshop、Figma、Sketch、Axure，英语、日语、CET-6，运营、销售、PPT，钢琴、摄影、篮球、演讲
\*   prog4.s        熟悉Python、React、Docker、Linux
\*   prog1.s        会Vue
\*   intern10.s     曾在腾讯实习、华为实习、百度实习、阿里实习、字节实习、美团实习、京东实习、小米实习、网易实习、滴滴实习
\*   project.s      负责电商项目，完成支付系统项目，参与校园网站项目，设计推荐系统项目
\*   ach1.s         担任学生会主席，获得国家奖学金，获得省级奖学金，ACM竞赛获奖，全国数学建模大赛一等奖，通过CPA考试，CET-6，托福，雅思
\*   ach2.s         担任班长，获得校级奖学金
\*   basic1.1       张三，电
\*   basic1.2       13800138000
\*   basic1.3       zhangsan@example.com
\*   intent.1       产品经理
\*   QinghuaDaxue   清华大学
\*   edu1.2         清华大学 计算机专业 本科，GPA:3.8
\*   edu1.3         本科，GPA:3.8
\*   edu1.4         清华大学 计算机
\*   edu1.5         3.8
\*   ShenzhenDaxue  深圳大学
\*   skills.1       Java、Python、JavaScript、C++、Go、React、Vue、HTML、CSS、Docker、Git、Linux，数据分析、SQL、Excel、Tableau、SPSS，Photoshop、Figma、Sketch、Axure，英语、日语、CET-6，运营、销售、PPT，钢琴、摄影、篮球、演讲
\*   project.1      电商项目，完成支付系统项目，参与校园网站项目，设计推荐系统项目
\*   ach1.1         学生会主席，获得国家奖学金，获得省级奖学金，ACM竞赛获奖，全国数学建模大赛一等奖，通过CPA考试，CET-6，托福，雅思
\*   ach1.2         担任学生会主席
\*   ach2.1         班长，获得校级奖学金
\*   intern1.1      实习
\*   MouPeixunZhongxin 某培训中心
\*   MouBuzhimingXueyuan 某不知名学院
\*   Mou211Xueyuan  某211学院
\*   MouGaozhi      某高职
\*   syn.a          a
\*   syn.A          A 
\*   syn.ab         a b
\*   syn.ba         b a
\*   syn.abc        a b c
\*   syn.cd         c d
\*   skills.s.lower 熟练掌握java、python、javascript、c++、go、react、vue、html、css、docker、git、linux，数据分析、sql、excel、tableau、spss，photoshop、figma、sketch、axure，英语、日语、cet-6，运营、销售、ppt，钢琴、摄影、篮球、演讲
\*   prog4.s.lower  熟悉python、react、docker、linux
\*   ach1.s.lower   担任学生会主席，获得国家奖学金，获得省级奖学金，acm竞赛获奖，全国数学建模大赛一等奖，通过cpa考试，cet-6，托福，雅思
\*   edu1.2.lower   清华大学 计算机专业 本科，gpa:3.8
\*   edu1.3.lower   本科，gpa:3.8
\*   skills.1.lower java、python、javascript、c++、go、react、vue、html、css、docker、git、linux，数据分析、sql、excel、tableau、spss，photoshop、figma、sketch、axure，英语、日语、cet-6，运营、销售、ppt，钢琴、摄影、篮球、演讲
\*   ach1.1.lower   学生会主席，获得国家奖学金，获得省级奖学金，acm竞赛获奖，全国数学建模大赛一等奖，通过cpa考试，cet-6，托福，雅思
Length ==
    "basic1" :> 45
    @@ "intent" :> 10
    @@ "basic2" :> 41
    @@ "edu1" :> 22
    @@ "edu2" :> 13
    @@ "skills" :> 161
    @@ "prog4" :> 28
    @@ "prog1" :> 5
    @@ "intern10" :> 52
    @@ "project" :> 34
    @@ "papers" :> 30
    @@ "ach1" :> 64
    @@ "ach2" :> 13
    @@ "intern1" :> 3
    @@ "" :> 0
    @@ "basic1.s" :> 44
    @@ "basic2.s" :> 40
    @@ "edu1.s" :> 21
    @@ "edu2.s" :> 12
    @@ "skills.s" :> 160
    @@ "prog4.s" :> 27
    @@ "prog1.s" :> 4
    @@ "intern10.s" :> 51
    @@ "project.s" :> 33
    @@ "ach1.s" :> 63
    @@ "ach2.s" :> 12
    @@ "basic1.1" :> 4
    @@ "basic1.2" :> 11
    @@ "basic1.3" :> 20
    @@ "intent.1" :> 4
    @@ "QinghuaDaxue" :> 4
    @@ "edu1.2" :> 21
    @@ "edu1.3" :> 10
    @@ "edu1.4" :> 8
    @@ "edu1.5" :> 3
    @@ "ShenzhenDaxue" :> 4
    @@ "skills.1" :> 156
    @@ "project.1" :> 31
    @@ "ach1.1" :> 61
    @@ "ach1.2" :> 7
    @@ "ach2.1" :> 10
    @@ "intern1.1" :> 2
    @@ "MouPeixunZhongxin" :> 5
    @@ "MouBuzhimingXueyuan" :> 6
    @@ "Mou211Xueyuan" :> 6
    @@ "MouGaozhi" :> 3
    @@ "syn.a" :> 1
    @@ "syn.A" :> 2
    @@ "syn.ab" :> 3
    @@ "syn.ba" :> 3
    @@ "syn.abc" :> 5
    @@ "syn.cd" :> 3

\* RegExp.prototype.test: the pairs <<string, regular expression>> that match.
\*   nameLabel      /姓名[：:]\s*([^\s\n]{2,4})/
\*   nameLine       /^([^\s\n]{2,4})$/m
\*   nameResume     /(个人简历|简历)/
\*   aiName         /姓名|名字/
\*   phone          /1[3-9]\d{9}/
\*   emailB         /\b[A-Za-z0-9._%+-]+@[A-Za-z0-9.-]+\.[A-Z|a-z]{2,}\b/
\*   email          /[a-zA-Z0-9._%+-]+@[a-zA-Z0-9.-]+\.[a-zA-Z]{2,}/
\*   aiAddress      /(地址|住址|居住地)/
\*   address        /(市|省|区|县|路|街|号|意向|求职)/
\*   intention      /(求职|应聘|岗位|职位|意向)/
\*   website        /(github|gitlab|个人网站|博客|portfolio)/i
\*   social         /(linkedin|微博|知乎)/i
\*   birthday       /(出生|生日|\d{4}年\d{1,2}月)/
\*   political      /(党员|团员|群众|政治面貌)/
\*   hasGPA         /GPA|绩点|平均分|成绩/
\*   hasCompanyName /(有限公司|股份|集团|科技|互联网|腾讯|阿里|百度|字节|美团|京东|华为|小米|网易|滴滴|快手)/i
\*   hasAchievement /(完成|实现|提升|优化|负责|开发|设计|获得|达到)/i
\*   incIntern      /实习/
\*   incProject     /项目/
\*   chairman       /(主席|会长|社长)/
\*   minister       /(部长|副主席|副会长|副社长)/
\*   member         /(干事|委员|成员|班长|团支书)/
\*   natSchol       /(国家.{0,10}奖学金|国家.{0,10}励志奖学金)/
\*   provSchol      /(省.{0,10}奖学金|省级.{0,10}奖学金)/
\*   schoolSchol    /(校.{0,10}奖学金|一等奖学金|二等奖学金|三等奖学金)/
\*   intlCompA      /(国际.{0,15}(竞赛|比赛|大赛).{0,10}(奖|名|获奖)|ACM|ICPC)/
\*   natCompA       /(全国.{0,15}(竞赛|比赛|大赛).{0,10}(奖|名|获奖)|国家级.{0,15}(竞赛|比赛|大赛))/
\*   advCert        /(CPA|注册会计师|司法考试|法律职业资格)/
\*   genCert        /(英语.*[四六]级|CET-[46]|托福|雅思|计算机.*级)/
\*   isSchol        /奖学金|助学金/
\*   isHonor        /三好学生|优秀|先进/
\*   natHonor       /(国家|全国).{0,10}(优秀|先进)/
\*   provHonor      /(省|市).{0,10}(优秀|先进)/
\*   isComp         /竞赛|比赛|大赛|获奖/
\*   intlComp2      /(国际|世界).{0,15}(竞赛|比赛|大赛)|ACM|ICPC/
\*   natComp2       /(全国|国家级).{0,15}(竞赛|比赛|大赛)/
\*   provComp2      /(省|市).{0,15}(竞赛|比赛|大赛)/
\*   isCert         /证书|资格|认证/
\*   advCert2       /(CPA|注册会计师|司法考试|法律职业资格|注册建筑师|注册工程师)/
\*   isLeader       /主席|会长|社长|部长|班长|团支书/
\*   digit          /\d/
\*   at             /@/
\*   year           /20\d{2}/
\*   rankWord       /[一二三四五六七八九十]等|第[一二三四五六七八九十]名|优秀|特等/
\*   timeRank       /20\d{2}|[一二三四五六七八九十]等|获得|荣获|通过|考取/
\*   org            /大学|学院|公司|企业|学校|教育部|团委/
\*   university     /(大学|学院)/
\*   keyUniversity  /(985|211|双一流|重点)/
\*   vocational     /(专科|高职)/
\*   basic15        /(清华|北大)/i
\*   basic13        /(复旦|交大|浙大|中科大|南大)/i
\*   basic11        /(985)/i
\*   basic9         /(211|双一流)/i
\*   basic7         /(重点大学)/i
\*   basic3         /(大学|学院)/i
\*   basic1         /(专科|高职)/i
\*   inferPhd       /(博士|phd|doctor)/i
\*   inferMaster    /(硕士|研究生|master|graduate)/i
\*   inferAssociate /(专科|大专|高职)/i
TestTable ==
    { <<"basic1", "nameLabel">>, <<"basic1", "aiName">>, <<"basic1", "phone">>, <<"basic1", "emailB">>,
      <<"basic1", "email">>, <<"basic1", "digit">>, <<"basic1", "at">>, <<"intent", "address">>,
      <<"intent", "intention">>, <<"basic2", "website">>, <<"basic2", "social">>, <<"basic2", "birthday">>,
      <<"basic2", "political">>, <<"basic2", "digit">>, <<"edu1", "hasGPA">>, <<"edu1", "digit">>,
      <<"edu1", "org">>, <<"edu1", "university">>, <<"edu1", "basic15">>, <<"edu1", "basic3">>,
      <<"edu2", "org">>, <<"edu2", "university">>, <<"edu2", "basic3">>, <<"edu2", "inferMaster">>,
      <<"skills", "genCert">>, <<"skills", "digit">>, <<"intern10", "hasCompanyName">>, <<"intern10", "incIntern">>,
      <<"project", "hasAchievement">>, <<"project", "incProject">>, <<"ach1", "address">>, <<"ach1", "hasAchievement">>,
      <<"ach1", "chairman">>, <<"ach1", "natSchol">>, <<"ach1", "provSchol">>, <<"ach1", "intlCompA">>,
      <<"ach1", "natCompA">>, <<"ach1", "advCert">>, <<"ach1", "genCert">>, <<"ach1", "isSchol">>,
      <<"ach1", "isComp">>, <<"ach1", "intlComp2">>, <<"ach1", "natComp2">>, <<"ach1", "provComp2">>,
      <<"ach1", "advCert2">>, <<"ach1", "isLeader">>, <<"ach1", "digit">>, <<"ach1", "rankWord">>,
      <<"ach1", "timeRank">>, <<"ach2", "hasAchievement">>, <<"ach2", "member">>, <<"ach2", "schoolSchol">>,
      <<"ach2", "isSchol">>, <<"ach2", "isLeader">>, <<"ach2", "timeRank">>, <<"intern1", "nameLine">>,
      <<"intern1", "incIntern">>, <<"basic1.s", "nameLabel">>, <<"basic1.s", "aiName">>, <<"basic1.s", "phone">>,
      <<"basic1.s", "emailB">>, <<"basic1.s", "email">>, <<"basic1.s", "digit">>, <<"basic1.s", "at">>,
      <<"basic2.s", "website">>, <<"basic2.s", "social">>, <<"basic2.s", "birthday">>, <<"basic2.s", "political">>,
      <<"basic2.s", "digit">>, <<"edu1.s", "hasGPA">>, <<"edu1.s", "digit">>, <<"edu1.s", "org">>,
      <<"edu1.s", "university">>, <<"edu1.s", "basic15">>, <<"edu1.s", "basic3">>, <<"edu2.s", "org">>,
      <<"edu2.s", "university">>, <<"edu2.s", "basic3">>, <<"edu2.s", "inferMaster">>, <<"skills.s", "genCert">>,
      <<"skills.s", "digit">>, <<"prog1.s", "nameLine">>, <<"intern10.s", "hasCompanyName">>, <<"intern10.s", "incIntern">>,
      <<"project.s", "hasAchievement">>, <<"project.s", "incProject">>, <<"ach1.s", "address">>, <<"ach1.s", "hasAchievement">>,
      <<"ach1.s", "chairman">>, <<"ach1.s", "natSchol">>, <<"ach1.s", "provSchol">>, <<"ach1.s", "intlCompA">>,
      <<"ach1.s", "natCompA">>, <<"ach1.s", "advCert">>, <<"ach1.s", "genCert">>, <<"ach1.s", "isSchol">>,
      <<"ach1.s", "isComp">>, <<"ach1.s", "intlComp2">>, <<"ach1.s", "natComp2">>, <<"ach1.s", "provComp2">>,
      <<"ach1.s", "advCert2">>, <<"ach1.s", "isLeader">>, <<"ach1.s", "digit">>, <<"ach1.s", "rankWord">>,
      <<"ach1.s", "timeRank">>, <<"ach2.s", "hasAchievement">>, <<"ach2.s", "member">>, <<"ach2.s", "schoolSchol">>,
      <<"ach2.s", "isSchol">>, <<"ach2.s", "isLeader">>, <<"ach2.s", "timeRank">>, <<"basic1.1", "nameLine">>,
      <<"basic1.2", "phone">>, <<"basic1.2", "digit">>, <<"basic1.3", "emailB">>, <<"basic1.3", "email">>,
      <<"basic1.3", "at">>, <<"intent.1", "nameLine">>, <<"QinghuaDaxue", "nameLine">>, <<"QinghuaDaxue", "org">>,
      <<"QinghuaDaxue", "university">>, <<"QinghuaDaxue", "basic15">>, <<"QinghuaDaxue", "basic3">>, <<"edu1.2", "hasGPA">>,
      <<"edu1.2", "digit">>, <<"edu1.2", "org">>, <<"edu1.2", "university">>, <<"edu1.2", "basic15">>,
      <<"edu1.2", "basic3">>, <<"edu1.3", "hasGPA">>, <<"edu1.3", "digit">>, <<"edu1.4", "org">>,
      <<"edu1.4", "university">>, <<"edu1.4", "basic15">>, <<"edu1.4", "basic3">>, <<"edu1.5", "nameLine">>,
      <<"edu1.5", "digit">>, <<"ShenzhenDaxue", "nameLine">>, <<"ShenzhenDaxue", "org">>, <<"ShenzhenDaxue", "university">>,
      <<"ShenzhenDaxue", "basic3">>, <<"skills.1", "genCert">>, <<"skills.1", "digit">>, <<"project.1", "hasAchievement">>,
      <<"project.1", "incProject">>, <<"ach1.1", "address">>, <<"ach1.1", "hasAchievement">>, <<"ach1.1", "chairman">>,
      <<"ach1.1", "natSchol">>, <<"ach1.1", "provSchol">>, <<"ach1.1", "intlCompA">>, <<"ach1.1", "natCompA">>,
      <<"ach1.1", "advCert">>, <<"ach1.1", "genCert">>, <<"ach1.1", "isSchol">>, <<"ach1.1", "isComp">>,
      <<"ach1.1", "intlComp2">>, <<"ach1.1", "natComp2">>, <<"ach1.1", "provComp2">>, <<"ach1.1", "advCert2">>,
      <<"ach1.1", "isLeader">>, <<"ach1.1", "digit">>, <<"ach1.1", "rankWord">>, <<"ach1.1", "timeRank">>,
      <<"ach1.2", "chairman">>, <<"ach1.2", "isLeader">>, <<"ach2.1", "hasAchievement">>, <<"ach2.1", "member">>,
      <<"ach2.1", "schoolSchol">>, <<"ach2.1", "isSchol">>, <<"ach2.1", "isLeader">>, <<"ach2.1", "timeRank">>,
      <<"intern1.1", "nameLine">>, <<"intern1.1", "incIntern">>, <<"MouBuzhimingXueyuan", "org">>, <<"MouBuzhimingXueyuan", "university">>,
      <<"MouBuzhimingXueyuan", "basic3">>, <<"Mou211Xueyuan", "digit">>, <<"Mou211Xueyuan", "org">>, <<"Mou211Xueyuan", "university">>,
      <<"Mou211Xueyuan", "keyUniversity">>, <<"Mou211Xueyuan", "basic9">>, <<"Mou211Xueyuan", "basic3">>, <<"MouGaozhi", "nameLine">>,
      <<"MouGaozhi", "vocational">>, <<"MouGaozhi", "basic1">>, <<"MouGaozhi", "inferAssociate">> }

\* (text.match(regex) || []).length on each resume line, where it is not 0.
\*   intern         /实习|intern/gi
\*   companyIntern  /(公司|企业|集团|科技|有限).*?(实习|intern)/gi
\*   project        /项目|project/gi
\*   devProject     /(开发|设计|完成|负责).*?(项目|系统|网站|APP)/gi
\*   nature         /(nature|science)/gi
\*   jcr1           /(JCR.*?[一1]区|影响因子.*?[5-9])/gi
\*   sci            /(SCI|sci)/gi
\*   ei             /(EI|ei)/gi
\*   chinese        /(核心期刊|中文期刊)/gi
\*   chairmanOrg    /(学生会|社团|协会|俱乐部).{0,10}(主席|会长|社长)/gi
\*   chairmanAny    /(主席|会长|社长)/gi
\*   ministerOrg    /(学生会|社团|协会|俱乐部).{0,10}(部长|副主席|副会长|副社长)/gi
\*   ministerAny    /(部长|副主席|副会长|副社长)/gi
\*   memberOrg      /(学生会|社团|协会|俱乐部).{0,10}(干事|委员|成员)/gi
\*   memberAny      /(班长|团支书|学习委员|生活委员)/gi
\*   natScholG      /(国家.{0,10}奖学金|国家.{0,10}励志奖学金)/gi
\*   provScholG     /(省.{0,10}奖学金|省级.{0,10}奖学金)/gi
\*   schoolScholG   /(校.{0,10}奖学金|一等奖学金|二等奖学金|三等奖学金)/gi
\*   intlCompG      /(国际.{0,15}(竞赛|比赛|大赛).{0,10}(奖|名|获奖)|ACM|ICPC)/gi
\*   natCompG       /(全国.{0,15}(竞赛|比赛|大赛).{0,10}(奖|名|获奖)|国家级.{0,15}(竞赛|比赛|大赛))/gi
\*   provCompG      /(省.{0,15}(竞赛|比赛|大赛).{0,10}(奖|名|获奖))/gi
\*   advCertG       /(CPA|注册会计师|司法考试|法律职业资格)/gi
\*   genCertG       /(英语.*[四六]级|CET-[46]|托福|雅思|计算机.*级)/gi
\*   school3a       /(校.{0,10}奖学金|校级.{0,10}奖学金)/gi
\*   school3b       /(一等奖学金|二等奖学金|三等奖学金|特等奖学金|优秀学生奖学金|学业奖学金|综合奖学金)/gi
\*   school3c       /(优秀学生|三好学生|优秀毕业生|优秀团员|优秀党员)/gi
\*   school3d       /(奖学金|荣誉|奖励)(?!.*(国家|省|市|院))/gi
\*   college3       /(院.{0,10}奖学金|院级.{0,10}奖学金)/gi
\*   natComp3       /(全国.{0,15}(竞赛|比赛|大赛).{0,10}(奖|名|获奖)|国家级.{0,15}(竞赛|比赛|大赛).{0,10}(奖|名|获奖)|挑战杯|数学建模|创新创业)/gi
\*   provComp3      /(省.{0,15}(竞赛|比赛|大赛).{0,10}(奖|名|获奖)|省级.{0,15}(竞赛|比赛|大赛).{0,10}(奖|名|获奖))/gi
\*   schoolComp3    /(校.{0,15}(竞赛|比赛|大赛).{0,10}(奖|名|获奖)|一等奖|二等奖|三等奖|特等奖|金奖|银奖|铜奖)/gi
\*   advCert3       /(CPA|注册会计师|司法考试|法律职业资格|高级.{0,10}证书|PMP|CISSP)/gi
\*   genCert3       /(英语.*[四六]级|CET-[46]|托福|雅思|GRE|计算机.*级|软考|普通话.*级|驾驶证|驾照)/gi
CountTable ==
    <<"skills", "genCertG">> :> 1
    @@ <<"skills", "genCert3">> :> 1
    @@ <<"intern10", "intern">> :> 10
    @@ <<"project", "project">> :> 4
    @@ <<"project", "devProject">> :> 3
    @@ <<"papers", "nature">> :> 2
    @@ <<"papers", "sci">> :> 2
    @@ <<"ach1", "chairmanOrg">> :> 1
    @@ <<"ach1", "chairmanAny">> :> 1
    @@ <<"ach1", "natScholG">> :> 1
    @@ <<"ach1", "provScholG">> :> 1
    @@ <<"ach1", "intlCompG">> :> 1
    @@ <<"ach1", "natCompG">> :> 1
    @@ <<"ach1", "provCompG">> :> 1
    @@ <<"ach1", "advCertG">> :> 1
    @@ <<"ach1", "genCertG">> :> 3
    @@ <<"ach1", "school3d">> :> 1
    @@ <<"ach1", "natComp3">> :> 1
    @@ <<"ach1", "provComp3">> :> 1
    @@ <<"ach1", "schoolComp3">> :> 1
    @@ <<"ach1", "advCert3">> :> 1
    @@ <<"ach1", "genCert3">> :> 3
    @@ <<"ach2", "memberAny">> :> 1
    @@ <<"ach2", "schoolScholG">> :> 1
    @@ <<"ach2", "school3a">> :> 1
    @@ <<"ach2", "school3d">> :> 1
    @@ <<"intern1", "intern">> :> 1

\* skillKeywords of resume-parser.js (the same list in the third revision): the number of keywords of each bucket.
\* A keyword is named by its position in the bucket:
\*   programming  Java, Python, JavaScript, C++, C#, Go, Rust, Swift, Kotlin, React, Vue, Angular, Node.js, Spring, Django, Flask, Express, 前端, 后端, 全栈, 编程, 开发, 程序设计, HTML, CSS, PHP, TypeScript, jQuery, Bootstrap, Webpack, Git, Linux, Docker
\*   design       Photoshop, Illustrator, Sketch, Figma, XD, Axure, Principle, UI, UX, 平面设计, 交互设计, 视觉设计, 用户体验, 用户界面, 界面设计, 原型设计, 设计思维, Premiere, After Effects, Cinema 4D
\*   data         SQL, MySQL, MongoDB, PostgreSQL, Oracle, Excel, Tableau, SPSS, R语言, MATLAB, Power BI, Spark, Hadoop, Hive, 数据分析, 数据挖掘, 数据可视化, 机器学习, 深度学习, 人工智能, TensorFlow, PyTorch, 统计分析, 数据库, 大数据
\*   engineering  CAD, AutoCAD, SolidWorks, Pro/E, UG, CATIA, Inventor, ANSYS, ABAQUS, COMSOL, 有限元, 仿真, 建模, 测试, 实验设计, LabVIEW, Altium Designer, Keil, Quartus, Vivado, FPGA
\*   arts         钢琴, 吉他, 小提琴, 舞蹈, 唱歌, 绘画, 书法, 摄影, 视频制作, 篮球, 足球, 乒乓球, 羽毛球, 游泳, 跑步, 健身, 瑜伽, 演讲, 主持, 辩论, 表演, 相声, 话剧, 朗诵, 配音, 文学创作, 诗歌, 小说, 散文, 新闻写作, 编剧, 导演, 乐器演奏, 声乐, 作曲, 编曲, 音乐制作, 音响师
skillKeywords ==
    [programming |-> 33, design |-> 20, data |-> 25, engineering |-> 21, arts |-> 38]

\* skillKeywords of the AI revision: the number of keywords of each bucket.
\* A keyword is named by its position in the bucket:
\*   programming  Java, Python, JavaScript, C++, C#, Go, Rust, Swift, Kotlin, React, Vue, Angular, Node.js, Spring, Django, Flask, Express, 前端, 后端, 全栈, 编程, 开发, 程序设计, HTML, CSS, PHP, TypeScript, jQuery, Bootstrap, Webpack, Git, Linux, Docker, MySQL, MongoDB, PostgreSQL, Redis, Kubernetes, AWS, Azure
\*   design       Photoshop, Illustrator, Sketch, Figma, XD, Axure, Principle, UI, UX, 平面设计, 交互设计, 视觉设计, 用户体验, 用户界面, 界面设计, 原型设计, 设计思维, Premiere, After Effects, Cinema 4D, AutoCAD, SolidWorks, Pro/E, UG, CATIA, Inventor, 工业设计
\*   data         SQL, MySQL, MongoDB, PostgreSQL, Oracle, Excel, Tableau, SPSS, R语言, MATLAB, Power BI, Spark, Hadoop, Hive, 数据分析, 数据挖掘, 数据可视化, 机器学习, 深度学习, 人工智能, TensorFlow, PyTorch, 统计分析, 数据库, 大数据, Pandas, NumPy
\*   engineering  CAD, AutoCAD, SolidWorks, Pro/E, UG, CATIA, Inventor, ANSYS, ABAQUS, COMSOL, 有限元, 仿真, 建模, 测试, 实验设计, LabVIEW, Altium Designer, Keil, Quartus, Vivado, FPGA, 电路设计, 机械设计, 结构设计, 工艺设计
\*   languages    英语, 日语, 韩语, 法语, 德语, 西班牙语, CET-4, CET-6, 托福, 雅思, 四级, 六级, TOEFL, IELTS, GRE, GMAT
\*   business     项目管理, 产品管理, 运营, 市场营销, 销售, 客户服务, 商务谈判, 团队管理, 财务分析, 会计, 审计, PPT, Word, Excel
\*   arts         钢琴, 吉他, 小提琴, 舞蹈, 唱歌, 绘画, 书法, 摄影, 视频制作, 篮球, 足球, 乒乓球, 羽毛球, 游泳, 跑步, 健身, 瑜伽, 演讲, 主持, 辩论, 表演, 相声, 话剧, 朗诵, 配音, 文学创作, 诗歌, 小说, 散文, 新闻写作, 编剧, 导演
skillKeywords2 ==
    [programming |-> 40, design |-> 27, data |-> 27, engineering |-> 25, languages |-> 16, business |-> 14, arts |-> 32]

\* string.toLowerCase().includes(skill.toLowerCase()), by keyword list (1: skillKeywords of
\* resume-parser.js and of the third revision, 2: of the AI revision) and string:
\* the <<bucket, keyword index>> pairs that hold.
includesTable ==
    <<1, "skills">> :> {<<"programming", 1>>, <<"programming", 2>>, <<"programming", 3>>, <<"programming", 4>>, <<"programming", 6>>, <<"programming", 10>>, <<"programming", 11>>, <<"programming", 24>>, <<"programming", 25>>, <<"programming", 31>>, <<"programming", 32>>, <<"programming", 33>>, <<"design", 1>>, <<"design", 3>>, <<"design", 4>>, <<"design", 6>>, <<"design", 9>>, <<"data", 1>>, <<"data", 6>>, <<"data", 7>>, <<"data", 8>>, <<"data", 15>>, <<"arts", 1>>, <<"arts", 8>>, <<"arts", 10>>, <<"arts", 18>>}
    @@ <<1, "prog4">> :> {<<"programming", 2>>, <<"programming", 10>>, <<"programming", 32>>, <<"programming", 33>>, <<"design", 9>>}
    @@ <<1, "prog1">> :> {<<"programming", 11>>}
    @@ <<1, "ach1">> :> {<<"engineering", 13>>}
    @@ <<1, "skills.s">> :> {<<"programming", 1>>, <<"programming", 2>>, <<"programming", 3>>, <<"programming", 4>>, <<"programming", 6>>, <<"programming", 10>>, <<"programming", 11>>, <<"programming", 24>>, <<"programming", 25>>, <<"programming", 31>>, <<"programming", 32>>, <<"programming", 33>>, <<"design", 1>>, <<"design", 3>>, <<"design", 4>>, <<"design", 6>>, <<"design", 9>>, <<"data", 1>>, <<"data", 6>>, <<"data", 7>>, <<"data", 8>>, <<"data", 15>>, <<"arts", 1>>, <<"arts", 8>>, <<"arts", 10>>, <<"arts", 18>>}
    @@ <<1, "prog4.s">> :> {<<"programming", 2>>, <<"programming", 10>>, <<"programming", 32>>, <<"programming", 33>>, <<"design", 9>>}
    @@ <<1, "prog1.s">> :> {<<"programming", 11>>}
    @@ <<1, "ach1.s">> :> {<<"engineering", 13>>}
    @@ <<1, "skills.1">> :> {<<"programming", 1>>, <<"programming", 2>>, <<"programming", 3>>, <<"programming", 4>>, <<"programming", 6>>, <<"programming", 10>>, <<"programming", 11>>, <<"programming", 24>>, <<"programming", 25>>, <<"programming", 31>>, <<"programming", 32>>, <<"programming", 33>>, <<"design", 1>>, <<"design", 3>>, <<"design", 4>>, <<"design", 6>>, <<"design", 9>>, <<"data", 1>>, <<"data", 6>>, <<"data", 7>>, <<"data", 8>>, <<"data", 15>>, <<"arts", 1>>, <<"arts", 8>>, <<"arts", 10>>, <<"arts", 18>>}
    @@ <<1, "ach1.1">> :> {<<"engineering", 13>>}
    @@ <<2, "skills">> :> {<<"programming", 1>>, <<"programming", 2>>, <<"programming", 3>>, <<"programming", 4>>, <<"programming", 6>>, <<"programming", 10>>, <<"programming", 11>>, <<"programming", 24>>, <<"programming", 25>>, <<"programming", 31>>, <<"programming", 32>>, <<"programming", 33>>, <<"design", 1>>, <<"design", 3>>, <<"design", 4>>, <<"design", 6>>, <<"design", 9>>, <<"data", 1>>, <<"data", 6>>, <<"data", 7>>, <<"data", 8>>, <<"data", 15>>, <<"languages", 1>>, <<"languages", 2>>, <<"languages", 8>>, <<"business", 3>>, <<"business", 5>>, <<"business", 12>>, <<"business", 14>>, <<"arts", 1>>, <<"arts", 8>>, <<"arts", 10>>, <<"arts", 18>>}
    @@ <<2, "prog4">> :> {<<"programming", 2>>, <<"programming", 10>>, <<"programming", 32>>, <<"programming", 33>>, <<"design", 9>>}
    @@ <<2, "prog1">> :> {<<"programming", 11>>}
    @@ <<2, "ach1">> :> {<<"engineering", 13>>, <<"languages", 8>>, <<"languages", 9>>, <<"languages", 10>>}
    @@ <<2, "skills.s">> :> {<<"programming", 1>>, <<"programming", 2>>, <<"programming", 3>>, <<"programming", 4>>, <<"programming", 6>>, <<"programming", 10>>, <<"programming", 11>>, <<"programming", 24>>, <<"programming", 25>>, <<"programming", 31>>, <<"programming", 32>>, <<"programming", 33>>, <<"design", 1>>, <<"design", 3>>, <<"design", 4>>, <<"design", 6>>, <<"design", 9>>, <<"data", 1>>, <<"data", 6>>, <<"data", 7>>, <<"data", 8>>, <<"data", 15>>, <<"languages", 1>>, <<"languages", 2>>, <<"languages", 8>>, <<"business", 3>>, <<"business", 5>>, <<"business", 12>>, <<"business", 14>>, <<"arts", 1>>, <<"arts", 8>>, <<"arts", 10>>, <<"arts", 18>>}
    @@ <<2, "prog4.s">> :> {<<"programming", 2>>, <<"programming", 10>>, <<"programming", 32>>, <<"programming", 33>>, <<"design", 9>>}
    @@ <<2, "prog1.s">> :> {<<"programming", 11>>}
    @@ <<2, "ach1.s">> :> {<<"engineering", 13>>, <<"languages", 8>>, <<"languages", 9>>, <<"languages", 10>>}
    @@ <<2, "skills.1">> :> {<<"programming", 1>>, <<"programming", 2>>, <<"programming", 3>>, <<"programming", 4>>, <<"programming", 6>>, <<"programming", 10>>, <<"programming", 11>>, <<"programming", 24>>, <<"programming", 25>>, <<"programming", 31>>, <<"programming", 32>>, <<"programming", 33>>, <<"design", 1>>, <<"design", 3>>, <<"design", 4>>, <<"design", 6>>, <<"design", 9>>, <<"data", 1>>, <<"data", 6>>, <<"data", 7>>, <<"data", 8>>, <<"data", 15>>, <<"languages", 1>>, <<"languages", 2>>, <<"languages", 8>>, <<"business", 3>>, <<"business", 5>>, <<"business", 12>>, <<"business", 14>>, <<"arts", 1>>, <<"arts", 8>>, <<"arts", 10>>, <<"arts", 18>>}
    @@ <<2, "ach1.1">> :> {<<"engineering", 13>>, <<"languages", 8>>, <<"languages", 9>>, <<"languages", 10>>}

\* textLower.includes(skillLower.replace(/[.\s]/g, "")) on each resume line.
strippedTable ==
    <<1, "skills">> :> {<<"programming", 1>>, <<"programming", 2>>, <<"programming", 3>>, <<"programming", 4>>, <<"programming", 6>>, <<"programming", 10>>, <<"programming", 11>>, <<"programming", 24>>, <<"programming", 25>>, <<"programming", 31>>, <<"programming", 32>>, <<"programming", 33>>, <<"design", 1>>, <<"design", 3>>, <<"design", 4>>, <<"design", 6>>, <<"design", 9>>, <<"data", 1>>, <<"data", 6>>, <<"data", 7>>, <<"data", 8>>, <<"data", 15>>, <<"arts", 1>>, <<"arts", 8>>, <<"arts", 10>>, <<"arts", 18>>}
    @@ <<1, "prog4">> :> {<<"programming", 2>>, <<"programming", 10>>, <<"programming", 32>>, <<"programming", 33>>, <<"design", 9>>}
    @@ <<1, "prog1">> :> {<<"programming", 11>>}
    @@ <<1, "ach1">> :> {<<"engineering", 13>>}
    @@ <<2, "skills">> :> {<<"programming", 1>>, <<"programming", 2>>, <<"programming", 3>>, <<"programming", 4>>, <<"programming", 6>>, <<"programming", 10>>, <<"programming", 11>>, <<"programming", 24>>, <<"programming", 25>>, <<"programming", 31>>, <<"programming", 32>>, <<"programming", 33>>, <<"design", 1>>, <<"design", 3>>, <<"design", 4>>, <<"design", 6>>, <<"design", 9>>, <<"data", 1>>, <<"data", 6>>, <<"data", 7>>, <<"data", 8>>, <<"data", 15>>, <<"languages", 1>>, <<"languages", 2>>, <<"languages", 8>>, <<"business", 3>>, <<"business", 5>>, <<"business", 12>>, <<"business", 14>>, <<"arts", 1>>, <<"arts", 8>>, <<"arts", 10>>, <<"arts", 18>>}
    @@ <<2, "prog4">> :> {<<"programming", 2>>, <<"programming", 10>>, <<"programming", 32>>, <<"programming", 33>>, <<"design", 9>>}
    @@ <<2, "prog1">> :> {<<"programming", 11>>}
    @@ <<2, "ach1">> :> {<<"engineering", 13>>, <<"languages", 8>>, <<"languages", 9>>, <<"languages", 10>>}

\* fuzzyMatch: cleanText.includes(cleanKeyword) on each resume line.
cleanTable ==
    <<1, "skills">> :> {<<"programming", 1>>, <<"programming", 2>>, <<"programming", 3>>, <<"programming", 4>>, <<"programming", 6>>, <<"programming", 10>>, <<"programming", 11>>, <<"programming", 24>>, <<"programming", 25>>, <<"programming", 31>>, <<"programming", 32>>, <<"programming", 33>>, <<"design", 1>>, <<"design", 3>>, <<"design", 4>>, <<"design", 6>>, <<"design", 9>>, <<"data", 1>>, <<"data", 6>>, <<"data", 7>>, <<"data", 8>>, <<"data", 15>>, <<"arts", 1>>, <<"arts", 8>>, <<"arts", 10>>, <<"arts", 18>>}
    @@ <<1, "prog4">> :> {<<"programming", 2>>, <<"programming", 10>>, <<"programming", 32>>, <<"programming", 33>>, <<"design", 9>>}
    @@ <<1, "prog1">> :> {<<"programming", 11>>}
    @@ <<1, "ach1">> :> {<<"engineering", 13>>}
    @@ <<2, "skills">> :> {<<"programming", 1>>, <<"programming", 2>>, <<"programming", 3>>, <<"programming", 4>>, <<"programming", 6>>, <<"programming", 10>>, <<"programming", 11>>, <<"programming", 24>>, <<"programming", 25>>, <<"programming", 31>>, <<"programming", 32>>, <<"programming", 33>>, <<"design", 1>>, <<"design", 3>>, <<"design", 4>>, <<"design", 6>>, <<"design", 9>>, <<"data", 1>>, <<"data", 6>>, <<"data", 7>>, <<"data", 8>>, <<"data", 15>>, <<"languages", 1>>, <<"languages", 2>>, <<"languages", 8>>, <<"business", 3>>, <<"business", 5>>, <<"business", 12>>, <<"business", 14>>, <<"arts", 1>>, <<"arts", 8>>, <<"arts", 10>>, <<"arts", 18>>}
    @@ <<2, "prog4">> :> {<<"programming", 2>>, <<"programming", 10>>, <<"programming", 32>>, <<"programming", 33>>, <<"design", 9>>}
    @@ <<2, "prog1">> :> {<<"programming", 11>>}
    @@ <<2, "ach1">> :> {<<"engineering", 13>>, <<"languages", 8>>, <<"languages", 9>>, <<"languages", 10>>}

\* item.keyword.toLowerCase().includes(skill.toLowerCase()) for the keywords of the
\* skills category of ai-keyword-extractor.js: Java, Python, JavaScript, React, Vue, MySQL, Git, Linux, 技能, 熟练, 精通, 掌握
keywordIncludesTable ==
    1 :> {<<"programming", 1>>}
    @@ 2 :> {<<"programming", 2>>}
    @@ 3 :> {<<"programming", 1>>, <<"programming", 3>>}
    @@ 4 :> {<<"programming", 10>>}
    @@ 5 :> {<<"programming", 11>>}
    @@ 6 :> {<<"data", 1>>, <<"data", 2>>}
    @@ 7 :> {<<"programming", 31>>}
    @@ 8 :> {<<"programming", 32>>, <<"design", 9>>}

\* enhancedRegexExtraction on one resume line: the trimmed matches of
\* /([^。\n]*keyword[^。\n]*)/gi, in category and keyword order.
enhancedRegexTable ==
    "basic1" :> <<[category |-> "personal", keyword |-> 1, sentence |-> "basic1.s"], [category |-> "personal", keyword |-> 2, sentence |-> "basic1.s"], [category |-> "personal", keyword |-> 3, sentence |-> "basic1.s"]>>
    @@ "basic2" :> <<[category |-> "personal", keyword |-> 9, sentence |-> "basic2.s"]>>
    @@ "edu1" :> <<[category |-> "education", keyword |-> 1, sentence |-> "edu1.s"], [category |-> "education", keyword |-> 3, sentence |-> "edu1.s"], [category |-> "education", keyword |-> 7, sentence |-> "edu1.s"], [category |-> "education", keyword |-> 9, sentence |-> "edu1.s"]>>
    @@ "edu2" :> <<[category |-> "education", keyword |-> 1, sentence |-> "edu2.s"], [category |-> "education", keyword |-> 4, sentence |-> "edu2.s"]>>
    @@ "skills" :> <<[category |-> "skills", keyword |-> 1, sentence |-> "skills.s"], [category |-> "skills", keyword |-> 2, sentence |-> "skills.s"], [category |-> "skills", keyword |-> 3, sentence |-> "skills.s"], [category |-> "skills", keyword |-> 4, sentence |-> "skills.s"], [category |-> "skills", keyword |-> 5, sentence |-> "skills.s"], [category |-> "skills", keyword |-> 7, sentence |-> "skills.s"], [category |-> "skills", keyword |-> 8, sentence |-> "skills.s"], [category |-> "skills", keyword |-> 10, sentence |-> "skills.s"], [category |-> "skills", keyword |-> 12, sentence |-> "skills.s"]>>
    @@ "prog4" :> <<[category |-> "skills", keyword |-> 2, sentence |-> "prog4.s"], [category |-> "skills", keyword |-> 4, sentence |-> "prog4.s"], [category |-> "skills", keyword |-> 8, sentence |-> "prog4.s"]>>
    @@ "prog1" :> <<[category |-> "skills", keyword |-> 5, sentence |-> "prog1.s"]>>
    @@ "intern10" :> <<[category |-> "experience", keyword |-> 1, sentence |-> "intern10.s"]>>
    @@ "project" :> <<[category |-> "experience", keyword |-> 3, sentence |-> "project.s"], [category |-> "experience", keyword |-> 5, sentence |-> "project.s"], [category |-> "experience", keyword |-> 6, sentence |-> "project.s"], [category |-> "experience", keyword |-> 7, sentence |-> "project.s"], [category |-> "experience", keyword |-> 8, sentence |-> "project.s"]>>
    @@ "ach1" :> <<[category |-> "education", keyword |-> 12, sentence |-> "ach1.s"], [category |-> "achievements", keyword |-> 3, sentence |-> "ach1.s"], [category |-> "achievements", keyword |-> 5, sentence |-> "ach1.s"], [category |-> "achievements", keyword |-> 7, sentence |-> "ach1.s"]>>
    @@ "ach2" :> <<[category |-> "education", keyword |-> 12, sentence |-> "ach2.s"], [category |-> "achievements", keyword |-> 3, sentence |-> "ach2.s"]>>

\* keywordDatabase: the subcategories in declaration order with the number of patterns,
\* keywords and context words of each.
keywordDatabase ==
    <<
      [category |-> "personal", subcategory |-> "name", patterns |-> 4, keywords |-> 0, contextWords |-> 4], 
      [category |-> "personal", subcategory |-> "phone", patterns |-> 3, keywords |-> 0, contextWords |-> 6], 
      [category |-> "personal", subcategory |-> "email", patterns |-> 2, keywords |-> 0, contextWords |-> 6], 
      [category |-> "personal", subcategory |-> "address", patterns |-> 2, keywords |-> 0, contextWords |-> 5], 
      [category |-> "personal", subcategory |-> "intention", patterns |-> 2, keywords |-> 0, contextWords |-> 5], 
      [category |-> "education", subcategory |-> "school", patterns |-> 3, keywords |-> 0, contextWords |-> 6], 
      [category |-> "education", subcategory |-> "degree", patterns |-> 2, keywords |-> 0, contextWords |-> 6], 
      [category |-> "education", subcategory |-> "major", patterns |-> 3, keywords |-> 0, contextWords |-> 4], 
      [category |-> "education", subcategory |-> "gpa", patterns |-> 2, keywords |-> 0, contextWords |-> 5], 
      [category |-> "skills", subcategory |-> "programming", patterns |-> 2, keywords |-> 33, contextWords |-> 6], 
      [category |-> "skills", subcategory |-> "design", patterns |-> 2, keywords |-> 14, contextWords |-> 6], 
      [category |-> "skills", subcategory |-> "languages", patterns |-> 2, keywords |-> 10, contextWords |-> 4], 
      [category |-> "experience", subcategory |-> "internship", patterns |-> 3, keywords |-> 0, contextWords |-> 4], 
      [category |-> "experience", subcategory |-> "project", patterns |-> 3, keywords |-> 0, contextWords |-> 4], 
      [category |-> "experience", subcategory |-> "work", patterns |-> 2, keywords |-> 0, contextWords |-> 4], 
      [category |-> "achievements", subcategory |-> "scholarship", patterns |-> 3, keywords |-> 14, contextWords |-> 4], 
      [category |-> "achievements", subcategory |-> "honor", patterns |-> 2, keywords |-> 10, contextWords |-> 4], 
      [category |-> "achievements", subcategory |-> "competition", patterns |-> 2, keywords |-> 11, contextWords |-> 5], 
      [category |-> "achievements", subcategory |-> "certificate", patterns |-> 2, keywords |-> 10, contextWords |-> 5], 
      [category |-> "achievements", subcategory |-> "leadership", patterns |-> 2, keywords |-> 13, contextWords |-> 5]>>

\* findMatches on one preprocessed resume line, for every pattern of the database that
\* matches: slot is the position of the subcategory in keywordDatabase, text the trimmed
\* match[1] || match[0]; global and anchored are the g flag and a leading ^ of the pattern.
patternTable ==
    "basic1" :> <<[slot |-> 1, patternIndex |-> 0, text |-> "basic1.1", global |-> FALSE, anchored |-> FALSE], [slot |-> 2, patternIndex |-> 0, text |-> "basic1.2", global |-> TRUE, anchored |-> FALSE], [slot |-> 2, patternIndex |-> 1, text |-> "basic1.2", global |-> TRUE, anchored |-> FALSE], [slot |-> 2, patternIndex |-> 2, text |-> "basic1.2", global |-> TRUE, anchored |-> FALSE], [slot |-> 3, patternIndex |-> 0, text |-> "basic1.3", global |-> TRUE, anchored |-> FALSE], [slot |-> 3, patternIndex |-> 1, text |-> "basic1.3", global |-> TRUE, anchored |-> FALSE]>>
    @@ "intent" :> <<[slot |-> 5, patternIndex |-> 0, text |-> "intent.1", global |-> TRUE, anchored |-> FALSE]>>
    @@ "edu1" :> <<[slot |-> 1, patternIndex |-> 1, text |-> "QinghuaDaxue", global |-> FALSE, anchored |-> TRUE], [slot |-> 6, patternIndex |-> 0, text |-> "edu1.2", global |-> TRUE, anchored |-> FALSE], [slot |-> 7, patternIndex |-> 0, text |-> "edu1.2", global |-> TRUE, anchored |-> FALSE], [slot |-> 8, patternIndex |-> 0, text |-> "edu1.3", global |-> TRUE, anchored |-> FALSE], [slot |-> 8, patternIndex |-> 1, text |-> "edu1.4", global |-> TRUE, anchored |-> FALSE], [slot |-> 9, patternIndex |-> 0, text |-> "edu1.5", global |-> TRUE, anchored |-> FALSE]>>
    @@ "edu2" :> <<[slot |-> 1, patternIndex |-> 1, text |-> "ShenzhenDaxue", global |-> FALSE, anchored |-> TRUE], [slot |-> 6, patternIndex |-> 0, text |-> "edu2.s", global |-> TRUE, anchored |-> FALSE], [slot |-> 7, patternIndex |-> 0, text |-> "edu2.s", global |-> TRUE, anchored |-> FALSE]>>
    @@ "skills" :> <<[slot |-> 10, patternIndex |-> 0, text |-> "skills.1", global |-> TRUE, anchored |-> FALSE], [slot |-> 11, patternIndex |-> 1, text |-> "skills.s", global |-> TRUE, anchored |-> FALSE], [slot |-> 12, patternIndex |-> 0, text |-> "skills.s", global |-> TRUE, anchored |-> FALSE], [slot |-> 12, patternIndex |-> 1, text |-> "skills.s", global |-> TRUE, anchored |-> FALSE]>>
    @@ "prog4" :> <<[slot |-> 11, patternIndex |-> 1, text |-> "prog4.s", global |-> TRUE, anchored |-> FALSE]>>
    @@ "intern10" :> <<[slot |-> 13, patternIndex |-> 0, text |-> "intern10.s", global |-> TRUE, anchored |-> FALSE]>>
    @@ "project" :> <<[slot |-> 11, patternIndex |-> 1, text |-> "project.s", global |-> TRUE, anchored |-> FALSE], [slot |-> 14, patternIndex |-> 0, text |-> "project.s", global |-> TRUE, anchored |-> FALSE], [slot |-> 14, patternIndex |-> 1, text |-> "project.1", global |-> TRUE, anchored |-> FALSE]>>
    @@ "ach1" :> <<[slot |-> 12, patternIndex |-> 1, text |-> "ach1.s", global |-> TRUE, anchored |-> FALSE], [slot |-> 16, patternIndex |-> 0, text |-> "ach1.s", global |-> TRUE, anchored |-> FALSE], [slot |-> 18, patternIndex |-> 0, text |-> "ach1.s", global |-> TRUE, anchored |-> FALSE], [slot |-> 20, patternIndex |-> 0, text |-> "ach1.s", global |-> TRUE, anchored |-> FALSE], [slot |-> 20, patternIndex |-> 1, text |-> "ach1.1", global |-> TRUE, anchored |-> FALSE]>>
    @@ "ach2" :> <<[slot |-> 16, patternIndex |-> 0, text |-> "ach2.s", global |-> TRUE, anchored |-> FALSE], [slot |-> 20, patternIndex |-> 0, text |-> "ach2.s", global |-> TRUE, anchored |-> FALSE], [slot |-> 20, patternIndex |-> 1, text |-> "ach2.1", global |-> TRUE, anchored |-> FALSE]>>
    @@ "intern1" :> <<[slot |-> 1, patternIndex |-> 1, text |-> "intern1", global |-> FALSE, anchored |-> TRUE], [slot |-> 13, patternIndex |-> 0, text |-> "intern1.1", global |-> TRUE, anchored |-> FALSE]>>

\* contextAnalysis on the sentence of one resume line: subcategories whose context score
\* exceeds 0.3 and for which extractFromContext finds a value; matchCount is the number of
\* context words the sentence includes.
contextTable ==
    "ach1" :> <<[slot |-> 18, text |-> "ach1.2", matchCount |-> 2]>>

\* keywordScanning on one resume line: keywords included in the line whose sentence has
\* 5..100 characters; equal is sentence.toLowerCase() === keyword.toLowerCase().
keywordTable ==
    "prog4" :> <<[slot |-> 10, keyword |-> 2, text |-> "prog4.s", equal |-> FALSE], [slot |-> 10, keyword |-> 11, text |-> "prog4.s", equal |-> FALSE], [slot |-> 10, keyword |-> 26, text |-> "prog4.s", equal |-> FALSE], [slot |-> 10, keyword |-> 31, text |-> "prog4.s", equal |-> FALSE], [slot |-> 11, keyword |-> 9, text |-> "prog4.s", equal |-> FALSE]>>
    @@ "ach1" :> <<[slot |-> 12, keyword |-> 8, text |-> "ach1.s", equal |-> FALSE], [slot |-> 12, keyword |-> 9, text |-> "ach1.s", equal |-> FALSE], [slot |-> 12, keyword |-> 10, text |-> "ach1.s", equal |-> FALSE], [slot |-> 16, keyword |-> 1, text |-> "ach1.s", equal |-> FALSE], [slot |-> 16, keyword |-> 4, text |-> "ach1.s", equal |-> FALSE], [slot |-> 16, keyword |-> 7, text |-> "ach1.s", equal |-> FALSE], [slot |-> 18, keyword |-> 1, text |-> "ach1.s", equal |-> FALSE], [slot |-> 18, keyword |-> 3, text |-> "ach1.s", equal |-> FALSE], [slot |-> 18, keyword |-> 5, text |-> "ach1.s", equal |-> FALSE], [slot |-> 18, keyword |-> 10, text |-> "ach1.s", equal |-> FALSE], [slot |-> 19, keyword |-> 1, text |-> "ach1.s", equal |-> FALSE], [slot |-> 20, keyword |-> 1, text |-> "ach1.s", equal |-> FALSE]>>
    @@ "ach2" :> <<[slot |-> 16, keyword |-> 1, text |-> "ach2.s", equal |-> FALSE], [slot |-> 16, keyword |-> 6, text |-> "ach2.s", equal |-> FALSE], [slot |-> 20, keyword |-> 8, text |-> "ach2.s", equal |-> FALSE]>>

\* Rounding of calculatePatternConfidence in IEEE double arithmetic: for a pattern index and
\* the set of bonuses added, the distance in units of the last place between the double the
\* code computes and the double nearest to the exact decimal sum (0 where absent).
patternRounding ==
    <<0, {"digit", "rankWord"}>> :> 1
    @@ <<1, {"year"}>> :> -1
    @@ <<1, {"mobile"}>> :> -1
    @@ <<1, {"mobile", "year"}>> :> -1
    @@ <<1, {"at"}>> :> -1
    @@ <<1, {"at", "year"}>> :> -1
    @@ <<1, {"lenOk"}>> :> -1
    @@ <<1, {"lenOk", "year"}>> :> -1
    @@ <<2, {"mobile"}>> :> 1
    @@ <<2, {"mobile", "year"}>> :> 1
    @@ <<2, {"at"}>> :> 1
    @@ <<2, {"at", "year"}>> :> 1
    @@ <<2, {"digit"}>> :> 1
    @@ <<2, {"digit", "rankWord"}>> :> 1
    @@ <<2, {"digit", "year", "rankWord"}>> :> 1
    @@ <<2, {"digit", "mobile"}>> :> 1
    @@ <<2, {"digit", "at"}>> :> 1
    @@ <<2, {"lenOk", "digit", "rankWord"}>> :> 1
    @@ <<3, {"mobile", "rankWord"}>> :> 1
    @@ <<3, {"at", "rankWord"}>> :> 1
    @@ <<3, {"digit", "mobile"}>> :> 1
    @@ <<3, {"digit", "mobile", "year"}>> :> 1
    @@ <<3, {"digit", "at"}>> :> 1
    @@ <<3, {"digit", "at", "year"}>> :> 1
    @@ <<3, {"lenOk", "year"}>> :> -1
    @@ <<3, {"lenOk", "mobile"}>> :> -1
    @@ <<3, {"lenOk", "mobile", "year"}>> :> -1
    @@ <<3, {"lenOk", "at"}>> :> -1
    @@ <<3, {"lenOk", "at", "year"}>> :> -1

\* Rounding of calculateKeywordConfidence in IEEE double arithmetic, as patternRounding.
keywordRounding ==
    <<"equal", {"org"}>> :> -1
    @@ <<"equal", {"lenOk"}>> :> -1
    @@ <<"equal", {"lenOk", "org"}>> :> -1
    @@ <<"includes", {}>> :> 1
    @@ <<"includes", {"org"}>> :> 1
    @@ <<"includes", {"timeRank"}>> :> 1
    @@ <<"includes", {"timeRank", "org"}>> :> 1
    @@ <<"includes", {"lenOk"}>> :> 1
    @@ <<"includes", {"lenOk", "timeRank"}>> :> 1
    @@ <<"includes", {"lenOk", "timeRank", "org"}>> :> 1

\* Rounding of calculateContextScore(...) * 0.8 in IEEE double arithmetic, by matchCount and
\* number of context words.
contextRounding ==
    <<3, 4>> :> 1
    @@ <<1, 5>> :> 1
    @@ <<2, 5>> :> 1
    @@ <<4, 5>> :> 1
    @@ <<5, 6>> :> 1

\* text.toLowerCase().trim() of a fact text, where it differs from the text.
lowerTable ==
    "skills.s" :> "skills.s.lower"
    @@ "prog4.s" :> "prog4.s.lower"
    @@ "ach1.s" :> "ach1.s.lower"
    @@ "edu1.2" :> "edu1.2.lower"
    @@ "edu1.3" :> "edu1.3.lower"
    @@ "skills.1" :> "skills.1.lower"
    @@ "ach1.1" :> "ach1.1.lower"
    @@ "syn.A" :> "syn.a"

\* norm1.includes(norm2) for distinct normalised fact texts: the pairs <<norm1, norm2>> that hold.
includesText ==
    { <<"intern1", "">>, <<"intern1", "intern1.1">>, <<"edu2.s", "">>,
      <<"edu2.s", "ShenzhenDaxue">>, <<"intern10.s", "">>, <<"intern10.s", "intern1.1">>,
      <<"project.s", "">>, <<"project.s", "project.1">>, <<"ach2.s", "">>,
      <<"ach2.s", "ach2.1">>, <<"basic1.1", "">>, <<"basic1.2", "">>,
      <<"basic1.3", "">>, <<"basic1.3", "syn.a">>, <<"intent.1", "">>,
      <<"QinghuaDaxue", "">>, <<"edu1.4", "">>, <<"edu1.4", "QinghuaDaxue">>,
      <<"edu1.5", "">>, <<"ShenzhenDaxue", "">>, <<"project.1", "">>,
      <<"ach1.2", "">>, <<"ach2.1", "">>, <<"intern1.1", "">>,
      <<"syn.a", "">>, <<"syn.ab", "">>, <<"syn.ab", "syn.a">>,
      <<"syn.ba", "">>, <<"syn.ba", "syn.a">>, <<"syn.abc", "">>,
      <<"syn.abc", "syn.a">>, <<"syn.abc", "syn.ab">>, <<"syn.cd", "">>,
      <<"skills.s.lower", "">>, <<"skills.s.lower", "syn.a">>, <<"skills.s.lower", "skills.1.lower">>,
      <<"prog4.s.lower", "">>, <<"prog4.s.lower", "syn.a">>, <<"ach1.s.lower", "">>,
      <<"ach1.s.lower", "ach1.2">>, <<"ach1.s.lower", "syn.a">>, <<"ach1.s.lower", "ach1.1.lower">>,
      <<"edu1.2.lower", "">>, <<"edu1.2.lower", "QinghuaDaxue">>, <<"edu1.2.lower", "edu1.4">>,
      <<"edu1.2.lower", "edu1.5">>, <<"edu1.2.lower", "syn.a">>, <<"edu1.2.lower", "edu1.3.lower">>,
      <<"edu1.3.lower", "">>, <<"edu1.3.lower", "edu1.5">>, <<"edu1.3.lower", "syn.a">>,
      <<"skills.1.lower", "">>, <<"skills.1.lower", "syn.a">>, <<"ach1.1.lower", "">>,
      <<"ach1.1.lower", "syn.a">> }

\* new Set(norm.split(/\s+/)) of each normalised fact text (words named w<n> stand for
\* words that are not plain ASCII).
wordsTable ==
    "intern1" :> {"w1"}
    @@ "" :> {"w2"}
    @@ "edu2.s" :> {"w3", "w4", "w5"}
    @@ "intern10.s" :> {"w6"}
    @@ "project.s" :> {"w7"}
    @@ "ach2.s" :> {"w8"}
    @@ "basic1.1" :> {"w9"}
    @@ "basic1.2" :> {"13800138000"}
    @@ "basic1.3" :> {"w11"}
    @@ "intent.1" :> {"w12"}
    @@ "QinghuaDaxue" :> {"w13"}
    @@ "edu1.4" :> {"w13", "w14"}
    @@ "edu1.5" :> {"w15"}
    @@ "ShenzhenDaxue" :> {"w3"}
    @@ "project.1" :> {"w16"}
    @@ "ach1.2" :> {"w17"}
    @@ "ach2.1" :> {"w18"}
    @@ "intern1.1" :> {"w19"}
    @@ "syn.a" :> {"a"}
    @@ "syn.ab" :> {"a", "b"}
    @@ "syn.ba" :> {"a", "b"}
    @@ "syn.abc" :> {"a", "b", "c"}
    @@ "syn.cd" :> {"c", "d"}
    @@ "skills.s.lower" :> {"w24"}
    @@ "prog4.s.lower" :> {"w25"}
    @@ "ach1.s.lower" :> {"w26"}
    @@ "edu1.2.lower" :> {"w13", "w27", "w28"}
    @@ "edu1.3.lower" :> {"w28"}
    @@ "skills.1.lower" :> {"w29"}
    @@ "ach1.1.lower" :> {"w30"}

\* extractDegrees, traditional patterns of resume-parser.js and of the AI revision, on one
\* resume line: per pattern (1..3) the records built from its matches.
degreeTable ==
    <<"edu1", 1>> :> <<[school |-> "QinghuaDaxue", degree |-> "unknown"]>>
    @@ <<"edu2", 1>> :> <<[school |-> "ShenzhenDaxue", degree |-> "unknown"]>>
    @@ <<"edu2", 2>> :> <<[school |-> "ShenzhenDaxue", degree |-> "unknown"]>>

\* extractDegrees of the third revision on one resume line, per pattern (1..3).
degreeTable3 ==
    <<"edu1", 1>> :> <<[school |-> "QinghuaDaxue", degree |-> "bachelor"]>>
    @@ <<"edu2", 2>> :> <<[school |-> "ShenzhenDaxue", degree |-> "master"]>>

\* extractDegrees, AI half: the record built from one extracted sentence or fact text when
\* schoolMatch or degreeMatch holds.
aiDegreeTable ==
    "edu1.s" :> [school |-> "QinghuaDaxue", degree |-> "bachelor"]
    @@ "edu2.s" :> [school |-> "ShenzhenDaxue", degree |-> "master"]
    @@ "QinghuaDaxue" :> [school |-> "QinghuaDaxue", degree |-> "unknown"]
    @@ "edu1.2" :> [school |-> "QinghuaDaxue", degree |-> "bachelor"]
    @@ "edu1.3" :> [school |-> "", degree |-> "bachelor"]
    @@ "edu1.4" :> [school |-> "QinghuaDaxue", degree |-> "unknown"]
    @@ "ShenzhenDaxue" :> [school |-> "ShenzhenDaxue", degree |-> "unknown"]

\* extractGPA: parseFloat(match[1]) * 100 of the first match of each pattern (1..3) on one
\* resume line.
gpaTable ==
    <<"edu1", 1>> :> 380

\* this.schoolRanks: the names each tier lists, in pinyin.
\*   topTier   清华大学, 北京大学, 清华, 北大
\*   tier1A    复旦大学, 上海交通大学, 浙江大学, 中国科学技术大学, 南京大学, 中国人民大学, 北京航空航天大学, 北京理工大学, 中国科学院大学, 南方科技大学, 复旦, 交大, 浙大, 中科大, 南大, 人大, 北航, 北理工, 国科大, 南科大
\*   tier1B    西安交通大学, 哈尔滨工业大学, 华中科技大学, 同济大学, 东南大学, 天津大学, 北京师范大学, 南开大学, 中山大学, 西北工业大学, 华东师范大学, 西交, 哈工大, 华科, 同济, 东南, 天大, 北师大, 南开, 中大, 西工大, 华师大
\*   tier2A    中南大学, 电子科技大学, 重庆大学, 大连理工大学, 吉林大学, 厦门大学, 山东大学, 华南理工大学, 湖南大学, 东北大学, 兰州大学, 中国农业大学, 中国海洋大学, 西北农林科技大学, 北京邮电大学, 华东理工大学, 西安电子科技大学, 北京科技大学, 上海财经大学, 对外经济贸易大学, 中央财经大学, 海大, 中海大, 山大, 华南理工, 湖大, 东北大学
\*   tier2B    北京交通大学, 北京工业大学, 北京化工大学, 中国石油大学, 中国地质大学, 中国矿业大学, 河海大学, 江南大学, 南京理工大学, 南京航空航天大学, 安徽大学, 合肥工业大学, 福州大学, 南昌大学, 郑州大学
\*   tier3     西湖大学, 上海科技大学, 深圳大学, 苏州大学, 杭州电子科技大学, 宁波大学, 江苏科技大学, 南京信息工程大学
rankedSchools ==
    [topTier |->
        {"QinghuaDaxue", "BeijingDaxue", "Qinghua", "Beida"},
     tier1A |->
        {"FudanDaxue", "ShanghaiJiaotongDaxue", "ZhejiangDaxue", "ZhongguoKexueJishuDaxue", "NanjingDaxue", "ZhongguoRenminDaxue", "BeijingHangkongHangtianDaxue", "BeijingLigongDaxue", "ZhongguoKexueyuanDaxue", "NanfangKejiDaxue", "Fudan", "Jiaoda", "Zheda", "Zhongkeda", "Nanda", "Renda", "Beihang", "Beiligong", "Guokeda", "Nankeda"},
     tier1B |->
        {"XianJiaotongDaxue", "HaerbinGongyeDaxue", "HuazhongKejiDaxue", "TongjiDaxue", "DongnanDaxue", "TianjinDaxue", "BeijingShifanDaxue", "NankaiDaxue", "ZhongshanDaxue", "XibeiGongyeDaxue", "HuadongShifanDaxue", "Xijiao", "Hagongda", "Huake", "Tongji", "Dongnan", "Tianda", "Beishida", "Nankai", "Zhongda", "Xigongda", "Huashida"},
     tier2A |->
        {"ZhongnanDaxue", "DianziKejiDaxue", "ChongqingDaxue", "DalianLigongDaxue", "JilinDaxue", "XiamenDaxue", "ShandongDaxue", "HuananLigongDaxue", "HunanDaxue", "DongbeiDaxue", "LanzhouDaxue", "ZhongguoNongyeDaxue", "ZhongguoHaiyangDaxue", "XibeiNonglinKejiDaxue", "BeijingYoudianDaxue", "HuadongLigongDaxue", "XianDianziKejiDaxue", "BeijingKejiDaxue", "ShanghaiCaijingDaxue", "DuiwaiJingjiMaoyiDaxue", "ZhongyangCaijingDaxue", "Haida", "Zhonghaida", "Shanda", "HuananLigong", "Huda", "DongbeiDaxue"},
     tier2B |->
        {"BeijingJiaotongDaxue", "BeijingGongyeDaxue", "BeijingHuagongDaxue", "ZhongguoShiyouDaxue", "ZhongguoDizhiDaxue", "ZhongguoKuangyeDaxue", "HehaiDaxue", "JiangnanDaxue", "NanjingLigongDaxue", "NanjingHangkongHangtianDaxue", "AnhuiDaxue", "HefeiGongyeDaxue", "FuzhouDaxue", "NanchangDaxue", "ZhengzhouDaxue"},
     tier3 |->
        {"XihuDaxue", "ShanghaiKejiDaxue", "ShenzhenDaxue", "SuzhouDaxue", "HangzhouDianziKejiDaxue", "NingboDaxue", "JiangsuKejiDaxue", "NanjingXinxiGongchengDaxue"}]

\* getSchoolRankScore: the first tier of schoolRanks with a school that matchSchoolName
\* accepts, for each school name of the model that has one.
schoolTierTable ==
    "QinghuaDaxue" :> "topTier"
    @@ "ShenzhenDaxue" :> "tier3"
    @@ "BeijingDaxue" :> "topTier"
    @@ "Qinghua" :> "topTier"
    @@ "Beida" :> "topTier"
    @@ "FudanDaxue" :> "tier1A"
    @@ "ShanghaiJiaotongDaxue" :> "tier1A"
    @@ "ZhejiangDaxue" :> "tier1A"
    @@ "ZhongguoKexueJishuDaxue" :> "tier1A"
    @@ "NanjingDaxue" :> "tier1A"
    @@ "ZhongguoRenminDaxue" :> "tier1A"
    @@ "BeijingHangkongHangtianDaxue" :> "topTier"
    @@ "BeijingLigongDaxue" :> "topTier"
    @@ "ZhongguoKexueyuanDaxue" :> "tier1A"
    @@ "NanfangKejiDaxue" :> "tier1A"
    @@ "Fudan" :> "tier1A"
    @@ "Jiaoda" :> "tier1A"
    @@ "Zheda" :> "tier1A"
    @@ "Zhongkeda" :> "tier1A"
    @@ "Nanda" :> "tier1A"
    @@ "Renda" :> "tier1A"
    @@ "Beihang" :> "tier1A"
    @@ "Beiligong" :> "topTier"
    @@ "Guokeda" :> "tier1A"
    @@ "Nankeda" :> "tier1A"
    @@ "XianJiaotongDaxue" :> "tier1B"
    @@ "HaerbinGongyeDaxue" :> "tier1B"
    @@ "HuazhongKejiDaxue" :> "tier1B"
    @@ "TongjiDaxue" :> "tier1B"
    @@ "DongnanDaxue" :> "tier1A"
    @@ "TianjinDaxue" :> "tier1B"
    @@ "BeijingShifanDaxue" :> "topTier"
    @@ "NankaiDaxue" :> "tier1B"
    @@ "ZhongshanDaxue" :> "tier1B"
    @@ "XibeiGongyeDaxue" :> "tier1B"
    @@ "HuadongShifanDaxue" :> "tier1B"
    @@ "Xijiao" :> "tier1B"
    @@ "Hagongda" :> "tier1B"
    @@ "Huake" :> "tier1B"
    @@ "Tongji" :> "tier1B"
    @@ "Dongnan" :> "tier1B"
    @@ "Tianda" :> "tier1A"
    @@ "Beishida" :> "tier1B"
    @@ "Nankai" :> "tier1B"
    @@ "Zhongda" :> "tier1B"
    @@ "Xigongda" :> "tier1B"
    @@ "Huashida" :> "tier1B"
    @@ "ZhongnanDaxue" :> "tier1A"
    @@ "DianziKejiDaxue" :> "tier2A"
    @@ "ChongqingDaxue" :> "tier2A"
    @@ "DalianLigongDaxue" :> "tier2A"
    @@ "JilinDaxue" :> "tier2A"
    @@ "XiamenDaxue" :> "tier2A"
    @@ "ShandongDaxue" :> "tier2A"
    @@ "HuananLigongDaxue" :> "tier2A"
    @@ "HunanDaxue" :> "tier1A"
    @@ "DongbeiDaxue" :> "topTier"
    @@ "LanzhouDaxue" :> "tier2A"
    @@ "ZhongguoNongyeDaxue" :> "tier1A"
    @@ "ZhongguoHaiyangDaxue" :> "tier1A"
    @@ "XibeiNonglinKejiDaxue" :> "tier2A"
    @@ "BeijingYoudianDaxue" :> "topTier"
    @@ "HuadongLigongDaxue" :> "tier1B"
    @@ "XianDianziKejiDaxue" :> "tier2A"
    @@ "BeijingKejiDaxue" :> "topTier"
    @@ "ShanghaiCaijingDaxue" :> "tier2A"
    @@ "DuiwaiJingjiMaoyiDaxue" :> "tier2A"
    @@ "ZhongyangCaijingDaxue" :> "tier2A"
    @@ "Haida" :> "tier2A"
    @@ "Zhonghaida" :> "tier2A"
    @@ "Shanda" :> "tier1B"
    @@ "HuananLigong" :> "tier2A"
    @@ "Huda" :> "tier2A"
    @@ "BeijingJiaotongDaxue" :> "topTier"
    @@ "BeijingGongyeDaxue" :> "topTier"
    @@ "BeijingHuagongDaxue" :> "topTier"
    @@ "ZhongguoShiyouDaxue" :> "tier1A"
    @@ "ZhongguoDizhiDaxue" :> "tier1A"
    @@ "ZhongguoKuangyeDaxue" :> "tier1A"
    @@ "HehaiDaxue" :> "tier2A"
    @@ "JiangnanDaxue" :> "tier1A"
    @@ "NanjingLigongDaxue" :> "tier1A"
    @@ "NanjingHangkongHangtianDaxue" :> "tier1A"
    @@ "AnhuiDaxue" :> "tier2B"
    @@ "HefeiGongyeDaxue" :> "tier2B"
    @@ "FuzhouDaxue" :> "tier2B"
    @@ "NanchangDaxue" :> "tier2B"
    @@ "ZhengzhouDaxue" :> "tier2B"
    @@ "XihuDaxue" :> "tier2A"
    @@ "ShanghaiKejiDaxue" :> "tier1A"
    @@ "SuzhouDaxue" :> "tier3"
    @@ "HangzhouDianziKejiDaxue" :> "tier2A"
    @@ "NingboDaxue" :> "tier3"
    @@ "JiangsuKejiDaxue" :> "tier3"
    @@ "NanjingXinxiGongchengDaxue" :> "tier1A"

\* findSchoolInText: the first school of allSchools that one resume line includes (by full or
\* shortened name), with its index in allSchools.
listedSchoolTable ==
    "edu1" :> [index |-> 1, school |-> "QinghuaDaxue"]
    @@ "edu2" :> [index |-> 91, school |-> "ShenzhenDaxue"]

\* findSchoolInText: match[1] of /([^。\n]*?大学|[^。\n]*?学院)/ on one resume line.
universityMatchTable ==
    "edu1" :> "QinghuaDaxue"
    @@ "edu2" :> "ShenzhenDaxue"

(***************************************************************************)
(* Arithmetic and strings                                                  *)
(***************************************************************************)
Min(a, b) == IF a < b THEN a ELSE b

Max(a, b) == IF a > b THEN a ELSE b

\* Math.round of a number given in half points.
round(halves) == (halves + 1) \div 2

Lookup(f, k, default) == IF k \in DOMAIN f THEN f[k] ELSE default

RECURSIVE SeqSum(_)
SeqSum(s) == IF s = << >> THEN 0 ELSE Head(s) + SeqSum(Tail(s))

RECURSIVE Flatten(_)
Flatten(ss) == IF ss = << >> THEN << >> ELSE Head(ss) \o Flatten(Tail(ss))

\* regex.test(s) on one string of the model.
test(regex, s) == <<s, regex>> \in TestTable

\* regex.test(text) on a resume text.
textTest(regex, t) == \E i \in DOMAIN t : test(regex, t[i])

\* (text.match(regex) || []).length for a regex with the g flag.
matchCount(regex, t) ==
    SeqSum([i \in DOMAIN t |-> Lookup(CountTable, <<t[i], regex>>, 0)])

\* text.length: the lines and the "\n" between them.
textLength(t) ==
    IF t = << >> THEN 0
    ELSE SeqSum([i \in DOMAIN t |-> Length[t[i]]]) + Len(t) - 1

\* The first line of the text on which a table has an entry for key k, as a
\* sequence of at most one value: text.match(regex) without the g flag.
firstMatch(table, t, k) ==
    LET I == {i \in DOMAIN t : <<t[i], k>> \in DOMAIN table}
    IN  IF I = {} THEN << >>
        ELSE <<table[<<t[CHOOSE i \in I : \A j \in I : i <= j], k>>]>>

maxScores ==
    [basicInfo |-> 10, education |-> 25, skills |-> 20, experience |-> 30,
     achievements |-> 15]

(***************************************************************************)
(* Skills                                                                  *)
(***************************************************************************)
\* sentence.toLowerCase().includes(skill.toLowerCase()) for one string.
includesSkill(list, s, bucket, k) ==
    <<bucket, k>> \in Lookup(includesTable, <<list, s>>, {})

\* textLower.includes(skillLower)
textIncludes(list, t, bucket, k) ==
    \E i \in DOMAIN t : includesSkill(list, t[i], bucket, k)

\* textLower.includes(skillLower.replace(/[.\s]/g, ''))
textIncludesStripped(list, t, bucket, k) ==
    \E i \in DOMAIN t : <<bucket, k>> \in Lookup(strippedTable, <<list, t[i]>>, {})

\* cleanText.includes(cleanKeyword)
cleanIncludesKeyword(list, t, bucket, k) ==
    \E i \in DOMAIN t : <<bucket, k>> \in Lookup(cleanTable, <<list, t[i]>>, {})

\* cleanKeyword.includes(cleanText): every catalogue line keeps more
\* characters than a keyword has once [\s\-_.] is removed, so the cleaned text
\* is a substring of a keyword exactly when it is the empty string.
keywordIncludesClean(t) == t = << >>

\* fuzzyMatch of resume-parser.js and of the AI revision (guarded: !text).
fuzzyMatch(list, t, bucket, k) ==
    /\ t # << >>
    /\ cleanIncludesKeyword(list, t, bucket, k) \/ keywordIncludesClean(t)

\* fuzzyMatch of the third revision (no guard).
fuzzyMatch3(list, t, bucket, k) ==
    cleanIncludesKeyword(list, t, bucket, k) \/ keywordIncludesClean(t)

analyzeSkills3(t) ==
    LET found(bucket) ==
            {k \in 1..skillKeywords[bucket] :
                \/ textIncludes(1, t, bucket, k)
                \/ textIncludesStripped(1, t, bucket, k)
                \/ fuzzyMatch3(1, t, bucket, k)}
        skills == [bucket \in DOMAIN skillKeywords |-> found(bucket)]
    IN  [programming |-> skills.programming, design |-> skills.design,
         data |-> skills.data, engineering |-> skills.engineering,
         arts |-> skills.arts,
         total |-> SeqSum([i \in 1..5 |->
                     Cardinality(skills[<<"programming", "design", "data",
                                          "engineering", "arts">>[i]])])]

(***************************************************************************)
(* Basic information                                                       *)
(***************************************************************************)
hasName(t) ==
    \/ textTest("nameLabel", t)
    \/ textTest("nameLine", t)
    \/ textTest("nameResume", t)
    \/ textLength(t) > 50

\* The number of items an info record holds.
trueCount(info) == Cardinality({k \in DOMAIN info : info[k]})

analyzeBasicInfo3(t) ==
    LET info == [name |-> hasName(t),
                 phone |-> textTest("phone", t),
                 email |-> textTest("emailB", t),
                 address |-> textTest("address", t),
                 intention |-> textTest("intention", t),
                 website |-> textTest("website", t),
                 social |-> textTest("social", t),
                 birthday |-> textTest("birthday", t),
                 political |-> textTest("political", t)]
    IN  [info |-> info, count |-> trueCount(info)]

(***************************************************************************)
(* Education                                                               *)
(***************************************************************************)
\* In units of 1/2500: gpa / 25, gpa * 0.8 or gpa of a parsed value.
extractGPA(t) ==
    LET gpaMatch == firstMatch(gpaTable, t, 1) \o firstMatch(gpaTable, t, 2)
                        \o firstMatch(gpaTable, t, 3)
    IN  IF gpaMatch = << >> THEN 0
        ELSE LET gpa == gpaMatch[1]
             IN  IF gpa > 500 THEN gpa
                 ELSE IF gpa > 400 THEN gpa * 20
                 ELSE gpa * 25

\* The records the three patterns of extractDegrees push, pattern by pattern.
patternDegrees(table, t) ==
    Flatten([p \in 1..3 |->
        Flatten([i \in DOMAIN t |-> Lookup(table, <<t[i], p>>, << >>)])])

\* As a sequence of at most one school name.
findSchoolInText(t) ==
    LET I == {i \in DOMAIN t : t[i] \in DOMAIN listedSchoolTable}
        U == {i \in DOMAIN t : t[i] \in DOMAIN universityMatchTable}
    IN  IF I # {}
        THEN LET i == CHOOSE i \in I : \A j \in I :
                        listedSchoolTable[t[i]].index <= listedSchoolTable[t[j]].index
             IN  <<listedSchoolTable[t[i]].school>>
        ELSE IF U # {}
        THEN <<universityMatchTable[t[CHOOSE i \in U : \A j \in U : i <= j]]>>
        ELSE << >>

inferDegreeLevel(t) ==
    IF textTest("inferPhd", t) THEN "phd"
    ELSE IF textTest("inferMaster", t) THEN "master"
    ELSE IF textTest("inferAssociate", t) THEN "associate"
    ELSE "bachelor"

extractDegrees3(t) ==
    LET degrees == patternDegrees(degreeTable3, t)
        schoolMatch == findSchoolInText(t)
    IN  IF degrees # << >> THEN degrees
        ELSE IF schoolMatch # << >>
        THEN <<[school |-> schoolMatch[1], degree |-> inferDegreeLevel(t)]>>
        ELSE << >>

\* The score of the first tier of schoolRanks that holds a matching school.
schoolRanks ==
    [topTier |-> 15, tier1A |-> 13, tier1B |-> 11, tier2A |-> 9, tier2B |-> 7,
     tier3 |-> 5]

getSchoolRankScore(schoolName) ==
    IF schoolName = "" THEN 2
    ELSE IF schoolName \in DOMAIN schoolTierTable
    THEN schoolRanks[schoolTierTable[schoolName]]
    ELSE IF test("university", schoolName)
    THEN (IF test("keyUniversity", schoolName) THEN 6 ELSE 3)
    ELSE IF test("vocational", schoolName) THEN 1
    ELSE 2

getBasicSchoolScore(t) ==
    IF textTest("basic15", t) THEN 15
    ELSE IF textTest("basic13", t) THEN 13
    ELSE IF textTest("basic11", t) THEN 11
    ELSE IF textTest("basic9", t) THEN 9
    ELSE IF textTest("basic7", t) THEN 7
    ELSE IF textTest("basic3", t) THEN 3
    ELSE IF textTest("basic1", t) THEN 1
    ELSE 2

\* order[degree] || 0 of the comparator of calculateSchoolScore.
degreeOrder(degree) ==
    Lookup([associate |-> 1, bachelor |-> 2, master |-> 3, phd |-> 4], degree, 0)

\* degrees.sort(...) by the order of the degree; the sort is stable.
sortDegrees(degrees) ==
    LET D == DOMAIN degrees
        ord(i) == degreeOrder(degrees[i].degree)
        before(j, i) == ord(j) < ord(i) \/ (ord(j) = ord(i) /\ j <= i)
    IN  [k \in D |->
            degrees[CHOOSE i \in D : Cardinality({j \in D : before(j, i)}) = k]]

\* calculateSchoolScore from the school of the highest degree alone: a score
\* the average of the first and the highest must tell from the code's.
calculateSchoolScoreHighestOnly(t, degrees) ==
    IF Len(degrees) = 0 THEN getBasicSchoolScore(t)
    ELSE Min(getSchoolRankScore(sortDegrees(degrees)[Len(degrees)].school), 15)

calculateSchoolScore(t, degrees) ==
    IF Len(degrees) = 0 THEN getBasicSchoolScore(t)
    ELSE IF Len(degrees) = 1
    THEN Min(getSchoolRankScore(degrees[1].school), 15)
    ELSE LET sortedDegrees == sortDegrees(degrees)
             firstScore == getSchoolRankScore(sortedDegrees[1].school)
             highestScore ==
                getSchoolRankScore(sortedDegrees[Len(sortedDegrees)].school)
         IN  Min(round(firstScore + highestScore), 15)

calculateDegreeScore(degrees) ==
    IF Len(degrees) = 0 THEN 0
    ELSE LET has(d) == \E i \in DOMAIN degrees : degrees[i].degree = d
             maxDegreeScore == IF has("phd") THEN 5
                               ELSE IF has("master") THEN 3
                               ELSE IF has("bachelor") THEN 1
                               ELSE 0
             totalDegrees == Cardinality({i \in DOMAIN degrees :
                                degrees[i].degree \in {"phd", "master", "bachelor"}})
             multiDegreeBonus == IF totalDegrees > 1 THEN totalDegrees - 1 ELSE 0
         IN  Min(maxDegreeScore + multiDegreeBonus, 5)

\* The record analyzeEducation builds from the degrees found; the sort of
\* calculateSchoolScore is in place.
educationOf(t, degrees) ==
    [schoolLevel |-> calculateSchoolScore(t, degrees),
     hasGPA |-> textTest("hasGPA", t),
     gpa |-> extractGPA(t),
     degrees |-> IF Len(degrees) > 1 THEN sortDegrees(degrees) ELSE degrees,
     degreeScore |-> calculateDegreeScore(degrees)]

analyzeEducation3(t) == educationOf(t, extractDegrees3(t))

(***************************************************************************)
(* Experience (scores in half points)                                      *)
(***************************************************************************)
calculateAcademicScore(t) ==
    Min(matchCount("nature", t) * 5 + matchCount("jcr1", t) * 4
        + matchCount("sci", t) * 3 + matchCount("ei", t) * 2
        + matchCount("chinese", t), 15)

\* Math.max of the two counts of analyzeExperience.
traditionalInternshipCount(t) ==
    Max(matchCount("intern", t), matchCount("companyIntern", t))

traditionalProjectCount(t) ==
    Max(matchCount("project", t), matchCount("devProject", t))

\* The scores analyzeExperience derives from the two counts.
experienceOf(t, internshipCount, projectCount) ==
    LET hasCompanyName == textTest("hasCompanyName", t)
        hasAchievement == textTest("hasAchievement", t)
        internshipRaw == internshipCount * (IF hasCompanyName THEN 6 ELSE 5)
        projectRaw == projectCount * (IF hasAchievement THEN 6 ELSE 5)
        academicRaw == calculateAcademicScore(t) * 2
    IN  [internshipCount |-> internshipCount,
         projectCount |-> projectCount,
         hasCompanyName |-> hasCompanyName,
         hasAchievement |-> hasAchievement,
         internshipScore |-> Min(internshipRaw, 20),
         projectScore |-> Min(projectRaw, 20),
         academicScore |-> Min(academicRaw, 20),
         internshipExtraScore |-> Max(0, internshipRaw - 20),
         projectExtraScore |-> Max(0, projectRaw - 20),
         academicExtraScore |-> Max(0, academicRaw - 20)]

analyzeExperience3(t) ==
    experienceOf(t, traditionalInternshipCount(t), traditionalProjectCount(t))

(***************************************************************************)
(* Achievements                                                            *)
(***************************************************************************)
\* score + Math.min(rawScore, Math.max(0, 5 - score)): one step of the capped
\* accumulation of a sub-score.
limited(score, rawScore) == score + Min(rawScore, Max(0, 5 - score))

NoDetails ==
    [chairman |-> 0, minister |-> 0, member |-> 0,
     nationalHonor |-> 0, provincialHonor |-> 0, schoolHonor |-> 0,
     collegeHonor |-> 0,
     internationalComp |-> 0, nationalComp |-> 0, provincialComp |-> 0,
     schoolComp |-> 0,
     advancedCert |-> 0, generalCert |-> 0]

\* An absent key of details or extraScore is held as 0.
achievementScores(d) ==
    LET leadershipRaw == d.chairman * 3 + d.minister * 2 + d.member
        leadership == limited(limited(limited(0, d.chairman * 3),
                                      d.minister * 2), d.member)
        honorRaw == d.nationalHonor * 4 + d.provincialHonor * 3
                        + d.schoolHonor * 2 + d.collegeHonor
        honor == limited(limited(limited(limited(0, d.nationalHonor * 4),
                            d.provincialHonor * 3), d.schoolHonor * 2),
                            d.collegeHonor)
        competitionRaw == d.internationalComp * 4 + d.nationalComp * 3
                            + d.provincialComp * 2 + d.schoolComp
        competition == limited(limited(limited(limited(0,
                            d.internationalComp * 4), d.nationalComp * 3),
                            d.provincialComp * 2), d.schoolComp)
        certRaw == d.advancedCert * 2 + d.generalCert
        cert == limited(limited(0, d.advancedCert * 2), d.generalCert)
        extra(raw) == IF raw > 5 THEN raw - 5 ELSE 0
    IN  [totalScore |-> Min(leadership + honor + competition + cert, 15),
         details |-> d,
         extraScore |-> [leadership |-> extra(leadershipRaw),
                         honor |-> extra(honorRaw),
                         competition |-> extra(competitionRaw),
                         certificate |-> extra(certRaw)]]

analyzeAchievements3(t) ==
    achievementScores(
        [chairman |-> matchCount("chairmanOrg", t) + matchCount("chairmanAny", t),
         minister |-> matchCount("ministerOrg", t) + matchCount("ministerAny", t),
         member |-> matchCount("memberOrg", t) + matchCount("memberAny", t),
         nationalHonor |-> matchCount("natScholG", t),
         provincialHonor |-> matchCount("provScholG", t),
         schoolHonor |-> matchCount("school3a", t) + matchCount("school3b", t)
                            + matchCount("school3c", t) + matchCount("school3d", t),
         collegeHonor |-> matchCount("college3", t),
         internationalComp |-> matchCount("intlCompG", t),
         nationalComp |-> matchCount("natComp3", t),
         provincialComp |-> matchCount("provComp3", t),
         schoolComp |-> matchCount("schoolComp3", t),
         advancedCert |-> matchCount("advCert3", t),
         generalCert |-> matchCount("genCert3", t)])

\* hasStructure, which no score reads, is left out.
analyzeResume3(t) ==
    [originalText |-> t,
     basicInfo |-> analyzeBasicInfo3(t),
     education |-> analyzeEducation3(t),
     skills |-> analyzeSkills3(t),
     experience |-> analyzeExperience3(t),
     achievements |-> analyzeAchievements3(t),
     wordCount |-> textLength(t)]

(***************************************************************************)
(* Scoring                                                                 *)
(***************************************************************************)
RECURSIVE SetSum(_, _)
\* The sum of f over the set S of arguments.
SetSum(f, S) ==
    IF S = {} THEN 0
    ELSE LET x == CHOOSE x \in S : TRUE IN f[x] + SetSum(f, S \ {x})

\* scoreBasicInfoDetailed without Math.min: a scorer the cap of 10 must tell
\* from the code's.
scoreBasicInfoUncapped(analysis) ==
    [total |-> analysis.basicInfo.count * 2,
     details |-> analysis.basicInfo]

scoreBasicInfoDetailed(analysis) ==
    [total |-> Min(analysis.basicInfo.count * 2, maxScores.basicInfo),
     details |-> analysis.basicInfo]

\* The GPA thresholds 3.7, 3.3, 2.7 and 2.0 in units of 1/2500.
scoreEducationDetailed(analysis) ==
    LET gpa4 == analysis.education.gpa
        details ==
            [school |-> Min(analysis.education.schoolLevel, 15),
             academic |-> IF gpa4 >= 9250 THEN 5
                          ELSE IF gpa4 >= 8250 THEN 4
                          ELSE IF gpa4 >= 6750 THEN 3
                          ELSE IF gpa4 >= 5000 THEN 2
                          ELSE IF analysis.education.hasGPA THEN 1
                          ELSE 0,
             degree |-> analysis.education.degreeScore]
    IN  [total |-> details.school + details.academic + details.degree,
         details |-> details]

\* limits: the cap of every skill bucket.
skillScores(skills, limits) ==
    LET details == [b \in DOMAIN limits |-> Min(Cardinality(skills[b]), limits[b])]
    IN  [total |-> Min(SetSum(details, DOMAIN limits), maxScores.skills),
         details |-> details]

scoreSkillsDetailed(analysis) ==
    skillScores(analysis.skills,
                [programming |-> 4, design |-> 4, data |-> 4, engineering |-> 4,
                 arts |-> 4])

\* scoreExperienceDetailed with the extra scores added to the details: a scorer
\* the caps of the details must tell from the code's.
scoreExperienceWithExtra(analysis) ==
    LET exp == analysis.experience
        details == [internship |-> round(exp.internshipScore + exp.internshipExtraScore),
                    project |-> round(exp.projectScore + exp.projectExtraScore),
                    academic |-> round(exp.academicScore + exp.academicExtraScore)]
    IN  [total |-> Min(details.internship + details.project + details.academic,
                       maxScores.experience),
         details |-> details]

scoreExperienceDetailed(analysis) ==
    LET exp == analysis.experience
        details == [internship |-> round(exp.internshipScore),
                    project |-> round(exp.projectScore),
                    academic |-> round(exp.academicScore)]
    IN  [total |-> Min(details.internship + details.project + details.academic,
                       maxScores.experience),
         details |-> details]

scoreAchievementsDetailed(analysis) ==
    LET ach == analysis.achievements
        d == ach.details
    IN  [total |-> ach.totalScore,
         details |->
            [leadership |-> Min(d.chairman * 3 + d.minister * 2 + d.member, 5),
             honor |-> Min(d.nationalHonor * 4 + d.provincialHonor * 3
                            + d.schoolHonor * 2 + d.collegeHonor, 5),
             competition |-> Min(d.internationalComp * 4 + d.nationalComp * 3
                                  + d.provincialComp * 2 + d.schoolComp, 5),
             certificate |-> Min(d.advancedCert * 2 + d.generalCert, 5)],
         extraScore |-> ach.extraScore]

calculateScores(analysis) ==
    [basicInfo |-> scoreBasicInfoDetailed(analysis),
     education |-> scoreEducationDetailed(analysis),
     skills |-> scoreSkillsDetailed(analysis),
     experience |-> scoreExperienceDetailed(analysis),
     achievements |-> scoreAchievementsDetailed(analysis)]

\* One optional entry of the specializations list.
specialization(condition, type, level, bonus) ==
    IF condition /\ bonus > 0
    THEN <<[type |-> type, level |-> level, bonus |-> bonus]>>
    ELSE << >>

\* skillSpecialization one keyword early: an entry the thresholds of the
\* buckets must tell from the code's.
skillSpecializationOneEarly(skills, type, from, limit) ==
    LET n == Cardinality(skills[type])
    IN  specialization(n >= from - 1, type, n, Min(n - (from - 2), limit))

\* An entry for a skill bucket that holds at least `from` skills.
skillSpecialization(skills, type, from, limit) ==
    LET n == Cardinality(skills[type])
    IN  specialization(n >= from, type, n, Min(n - (from - 1), limit))

countPapers(t) ==
    matchCount("nature", t) + matchCount("jcr1", t) + matchCount("sci", t)
        + matchCount("ei", t) + matchCount("chinese", t)

\* The extra scores of experience are in half points: floor(extra / 3).
detectSpecialization(analysis) ==
    LET skills == analysis.skills
        experience == analysis.experience
        extraScore == analysis.achievements.extraScore
        totalExtraScore == extraScore.leadership + extraScore.honor
                            + extraScore.competition + extraScore.certificate
    IN  skillSpecialization(skills, "programming", 5, 5)
        \o skillSpecialization(skills, "data", 4, 4)
        \o skillSpecialization(skills, "design", 4, 4)
        \o skillSpecialization(skills, "engineering", 4, 4)
        \o skillSpecialization(skills, "arts", 4, 4)
        \o specialization(experience.internshipExtraScore > 0, "internship",
                          experience.internshipCount,
                          Min(experience.internshipExtraScore \div 6, 5))
        \o specialization(experience.projectExtraScore > 0, "project",
                          experience.projectCount,
                          Min(experience.projectExtraScore \div 6, 5))
        \o specialization(experience.academicExtraScore > 0, "academic",
                          countPapers(analysis.originalText),
                          Min(experience.academicExtraScore \div 6, 5))
        \o specialization(totalExtraScore > 0, "achievement", totalExtraScore,
                          Min(totalExtraScore \div 3, 5))

\* resultOf with a total that leaves the bonus out: a result the sums of
\* scoreResume must tell from the code's.
resultWithoutBonus(analysis, baseScores, specializations) ==
    LET baseTotalScore ==
            baseScores.education.total
            + Min(baseScores.basicInfo.total, maxScores.basicInfo)
            + Min(baseScores.skills.total, maxScores.skills)
            + Min(baseScores.experience.total, maxScores.experience)
            + Min(baseScores.achievements.total, maxScores.achievements)
    IN  [status |-> "ok",
         baseScore |-> baseTotalScore,
         specializationBonus |->
            SeqSum([i \in DOMAIN specializations |-> specializations[i].bonus]),
         totalScore |-> baseTotalScore,
         categoryScores |-> baseScores,
         analysis |-> analysis,
         specializations |-> specializations]

\* The tail of scoreResume: the totals and the returned object.  All the
\* scores are whole numbers, so Math.round leaves them as they are.
resultOf(analysis, baseScores, specializations) ==
    LET baseTotalScore ==
            baseScores.education.total
            + Min(baseScores.basicInfo.total, maxScores.basicInfo)
            + Min(baseScores.skills.total, maxScores.skills)
            + Min(baseScores.experience.total, maxScores.experience)
            + Min(baseScores.achievements.total, maxScores.achievements)
        specializationBonus ==
            SeqSum([i \in DOMAIN specializations |-> specializations[i].bonus])
    IN  [status |-> "ok",
         baseScore |-> baseTotalScore,
         specializationBonus |-> specializationBonus,
         totalScore |-> baseTotalScore + specializationBonus,
         categoryScores |-> baseScores,
         analysis |-> analysis,
         specializations |-> specializations]

scoreResume3(t) ==
    LET analysis == analyzeResume3(t)
    IN  resultOf(analysis, calculateScores(analysis), detectSpecialization(analysis))

(***************************************************************************)
(* AIKeywordExtractor of ai-keyword-extractor.js                           *)
(***************************************************************************)
\* keywordCategories: the categories in declaration order with the number of
\* keywords of each.
keywordCategories ==
    <<[category |-> "education", keywords |-> 12],
      [category |-> "experience", keywords |-> 11],
      [category |-> "skills", keywords |-> 12],
      [category |-> "achievements", keywords |-> 9],
      [category |-> "personal", keywords |-> 9]>>

\* In units of 1/300.  matchCount / keywords.length * 2 is 2 for the one
\* keyword the sentence was found by, so keywordScore is 1.
calculateSentenceConfidence(sentence) ==
    3 * Min(Length[sentence], 50) + 150

\* Keyword by keyword the matches of the whole text, that is line by line.
enhancedRegexExtraction(t) ==
    LET found(i, category, k) ==
            SelectSeq(Lookup(enhancedRegexTable, t[i], << >>),
                      LAMBDA m : m.category = category /\ m.keyword = k)
        item(m) == [sentence |-> m.sentence, keyword |-> m.keyword,
                    confidence |-> calculateSentenceConfidence(m.sentence)]
        items(c) ==
            Flatten([k \in 1..keywordCategories[c].keywords |->
                Flatten([i \in DOMAIN t |->
                    LET ms == found(i, keywordCategories[c].category, k)
                    IN  [n \in DOMAIN ms |-> item(ms[n])]])])
    IN  [education |-> items(1), experience |-> items(2), skills |-> items(3),
         achievements |-> items(4), personal |-> items(5)]

\* The extraction result analyzeResume holds when the extractor is not
\* available (aiExtraction = null).
NoExtraction ==
    [available |-> FALSE, isAIEnhanced |-> FALSE,
     extractedKeywords |-> [education |-> << >>, experience |-> << >>,
                            skills |-> << >>, achievements |-> << >>,
                            personal |-> << >>],
     confidence |-> 0]

\* extractKeywords with isEnabled and without the NLP library.
extractKeywords(t) ==
    [available |-> TRUE, isAIEnhanced |-> TRUE,
     extractedKeywords |-> enhancedRegexExtraction(t),
     confidence |-> 210]

\* isEnabled && (isReady || true)
isAvailable(enabled) == enabled

(***************************************************************************)
(* ResumeScorer of resume-parser.js                                        *)
(***************************************************************************)
analyzeBasicInfo(t, aiExtraction) ==
    LET personal == aiExtraction.extractedKeywords.personal
        ai(regex) == \E i \in DOMAIN personal : test(regex, personal[i].sentence)
        aiCount(regex) == Len(SelectSeq(personal, LAMBDA m : test(regex, m.sentence)))
        has == t # << >>
        info == [name |-> ai("aiName") \/ (has /\ hasName(t)),
                 phone |-> ai("phone") \/ (has /\ textTest("phone", t)),
                 email |-> ai("emailB") \/ (has /\ textTest("emailB", t)),
                 address |-> ai("aiAddress") \/ (has /\ textTest("address", t)),
                 intention |-> has /\ textTest("intention", t),
                 website |-> has /\ textTest("website", t),
                 social |-> has /\ textTest("social", t),
                 birthday |-> has /\ textTest("birthday", t),
                 political |-> has /\ textTest("political", t)]
        \* info.name = info.name || true; if (!info.name) count++: the four
        \* items of the text path that the AI path shares are never counted.
        count == aiCount("aiName") + aiCount("phone") + aiCount("emailB")
                    + aiCount("aiAddress")
                    + trueCount([k \in {"intention", "website", "social",
                                        "birthday", "political"} |-> info[k]])
    IN  [info |-> info, count |-> Min(count, 9)]

analyzeSkills(t, aiExtraction) ==
    LET items == aiExtraction.extractedKeywords.skills
        isInSentence(m, bucket, k) == includesSkill(1, m.sentence, bucket, k)
        isInKeywords(m, bucket, k) ==
            <<bucket, k>> \in Lookup(keywordIncludesTable, m.keyword, {})
        found(bucket) ==
            {k \in 1..skillKeywords[bucket] :
                \/ \E i \in DOMAIN items :
                        isInSentence(items[i], bucket, k)
                        \/ isInKeywords(items[i], bucket, k)
                \/ /\ t # << >>
                   /\ \/ textIncludes(1, t, bucket, k)
                      \/ textIncludesStripped(1, t, bucket, k)
                      \/ fuzzyMatch(1, t, bucket, k)}
    IN  [programming |-> found("programming"), design |-> found("design"),
         data |-> found("data"), engineering |-> found("engineering"),
         arts |-> found("arts"),
         total |-> Cardinality(found("programming")) + Cardinality(found("design"))
                    + Cardinality(found("data")) + Cardinality(found("engineering"))
                    + Cardinality(found("arts"))]

\* The first occurrences of the elements of a sequence.
dedupe(s) ==
    LET I == {i \in DOMAIN s : \A j \in 1..(i - 1) : s[j] # s[i]}
    IN  [k \in 1..Cardinality(I) |->
            s[CHOOSE i \in I : Cardinality({j \in I : j <= i}) = k]]

\* The records hold the school and the degree, the two fields compared.
extractDegrees(t, aiExtraction) ==
    LET educationItems == aiExtraction.extractedKeywords.education
        ai == Flatten([i \in DOMAIN educationItems |->
                  IF educationItems[i].sentence \in DOMAIN aiDegreeTable
                  THEN <<aiDegreeTable[educationItems[i].sentence]>>
                  ELSE << >>])
        degrees == IF ai # << >> THEN ai ELSE patternDegrees(degreeTable, t)
    IN  dedupe(degrees)

analyzeEducation(t, aiExtraction) ==
    educationOf(t, extractDegrees(t, aiExtraction))

analyzeExperience(t, aiExtraction) ==
    LET experienceItems == aiExtraction.extractedKeywords.experience
        aiInternshipCount ==
            Len(SelectSeq(experienceItems, LAMBDA m : test("incIntern", m.sentence)))
        aiProjectCount ==
            Len(SelectSeq(experienceItems, LAMBDA m : test("incProject", m.sentence)))
    IN  experienceOf(t, Max(traditionalInternshipCount(t), aiInternshipCount),
                     Max(traditionalProjectCount(t), aiProjectCount))

\* Only the chairman patterns are evaluated, and no extra score is kept.
traditionalAchievementAnalysis(t) ==
    LET chairmanCount == matchCount("chairmanOrg", t) + matchCount("chairmanAny", t)
    IN  [totalScore |-> Min(Min(chairmanCount * 3, 5), 15),
         details |-> [NoDetails EXCEPT !.chairman = chairmanCount],
         extraScore |-> [leadership |-> 0, honor |-> 0, competition |-> 0,
                         certificate |-> 0]]

\* The details analyzeAchievements counts over the extracted sentences: within
\* a group the first test that holds takes the sentence.
aiDetails(sentences) ==
    LET is(regex, i) == test(regex, sentences[i])
        n(P(_)) == Cardinality({i \in DOMAIN sentences : P(i)})
    IN  [NoDetails EXCEPT
            !.chairman = n(LAMBDA i : is("chairman", i)),
            !.minister = n(LAMBDA i : ~is("chairman", i) /\ is("minister", i)),
            !.member = n(LAMBDA i : ~is("chairman", i) /\ ~is("minister", i)
                                        /\ is("member", i)),
            !.nationalHonor = n(LAMBDA i : is("natSchol", i)),
            !.provincialHonor = n(LAMBDA i : ~is("natSchol", i) /\ is("provSchol", i)),
            !.schoolHonor = n(LAMBDA i : ~is("natSchol", i) /\ ~is("provSchol", i)
                                            /\ is("schoolSchol", i)),
            !.internationalComp = n(LAMBDA i : is("intlCompA", i)),
            !.nationalComp = n(LAMBDA i : ~is("intlCompA", i) /\ is("natCompA", i)),
            !.advancedCert = n(LAMBDA i : is("advCert", i)),
            !.generalCert = n(LAMBDA i : ~is("advCert", i) /\ is("genCert", i))]

analyzeAchievements(t, aiExtraction) ==
    LET achievementItems == aiExtraction.extractedKeywords.achievements
        details == aiDetails([i \in DOMAIN achievementItems |->
                                achievementItems[i].sentence])
    IN  IF details = NoDetails THEN traditionalAchievementAnalysis(t)
        ELSE achievementScores(details)

\* hasStructure, which no score reads, is left out.
analyzeResume(t, enabled) ==
    LET aiExtraction == IF isAvailable(enabled) THEN extractKeywords(t)
                        ELSE NoExtraction
    IN  [originalText |-> t,
         basicInfo |-> analyzeBasicInfo(t, aiExtraction),
         education |-> analyzeEducation(t, aiExtraction),
         skills |-> analyzeSkills(t, aiExtraction),
         experience |-> analyzeExperience(t, aiExtraction),
         achievements |-> analyzeAchievements(t, aiExtraction),
         wordCount |-> textLength(t),
         aiEnhanced |-> aiExtraction.isAIEnhanced,
         aiConfidence |-> aiExtraction.confidence]

scoreResume1(t, enabled) ==
    LET analysis == analyzeResume(t, enabled)
    IN  resultOf(analysis, calculateScores(analysis), detectSpecialization(analysis))

(***************************************************************************)
(* AIKeywordExtractor of i18n.js                                           *)
(*                                                                         *)
(* A confidence is the record [units, ulps]: the exact decimal sum in      *)
(* units of 1/300 and the distance, in units of the last place, of the     *)
(* double the code holds from the double nearest to that sum.  Doubles     *)
(* compare as these records do in lexicographic order.                     *)
(***************************************************************************)
Confidence(units, ulps) == [units |-> units, ulps |-> ulps]

\* a.confidence > b.confidence
greater(a, b) == a.units > b.units \/ (a.units = b.units /\ a.ulps > b.ulps)

\* confidence > threshold, for a threshold that is the double nearest to
\* threshold / 300 (0.4 and 0.5 are).
above(confidence, threshold) == greater(confidence, Confidence(threshold, 0))

\* The sum as it is, without Math.min: a confidence the range [0, 1] must
\* tell from the code's.
unlimitedConfidence(units) == units

\* Math.min(confidence, 1.0) on the exact sum.
limitConfidence(units) == Min(units, 300)

\* The bonuses of a set that hold, and their sum.
bonusSum(amounts, B) == SetSum(amounts, B)

calculatePatternConfidence(matchText, patternIndex) ==
    LET amounts == [lenOk |-> 30, digit |-> 15, at |-> 60, mobile |-> 60,
                    year |-> 30, rankWord |-> 45]
        holds == [lenOk |-> Length[matchText] >= 5 /\ Length[matchText] <= 30,
                  digit |-> test("digit", matchText),
                  at |-> test("at", matchText),
                  mobile |-> test("phone", matchText),
                  year |-> test("year", matchText),
                  rankWord |-> test("rankWord", matchText)]
        B == {b \in DOMAIN amounts : holds[b]}
    IN  Confidence(limitConfidence(180 + (3 - patternIndex) * 15 + bonusSum(amounts, B)),
                   Lookup(patternRounding, <<patternIndex, B>>, 0))

\* The keyword scan only yields sentences that include the keyword.
calculateKeywordConfidence(sentence, equal) ==
    LET amounts == [lenOk |-> 30, timeRank |-> 45, org |-> 30]
        holds == [lenOk |-> Length[sentence] >= 8 /\ Length[sentence] <= 50,
                  timeRank |-> test("timeRank", sentence),
                  org |-> test("org", sentence)]
        B == {b \in DOMAIN amounts : holds[b]}
    IN  Confidence(limitConfidence(120 + (IF equal THEN 90 ELSE 60) + bonusSum(amounts, B)),
                   Lookup(keywordRounding, <<IF equal THEN "equal" ELSE "includes", B>>, 0))

\* contextScore * 0.8 with contextScore = Math.min(score / contextWords.length, 1)
contextConfidence(score, words) ==
    Confidence((240 * Min(score, words)) \div words,
               Lookup(contextRounding, <<score, words>>, 0))

\* One pushed item; category is the key of results the item is pushed under.
Fact(slot, keyword, factText, confidence, method) ==
    [category |-> keywordDatabase[slot].category,
     subcategory |-> keywordDatabase[slot].subcategory,
     keyword |-> keyword, text |-> factText, confidence |-> confidence,
     method |-> method]

\* findMatches over the whole text: a pattern without the g flag stops at the
\* first match of the text, and ^ only matches where the text starts because
\* preprocessText joins the lines with spaces.
exactPatternMatching(t) ==
    LET hit(i, slot, p) ==
            \E n \in DOMAIN Lookup(patternTable, t[i], << >>) :
                /\ patternTable[t[i]][n].slot = slot
                /\ patternTable[t[i]][n].patternIndex = p
        found(i, slot, p) ==
            SelectSeq(Lookup(patternTable, t[i], << >>),
                LAMBDA m : /\ m.slot = slot
                           /\ m.patternIndex = p
                           /\ m.anchored => i = 1
                           /\ m.global \/ \A j \in 1..(i - 1) : ~hit(j, slot, p))
        fact(m) == Fact(m.slot, keywordDatabase[m.slot].subcategory, m.text,
                        calculatePatternConfidence(m.text, m.patternIndex),
                        "exact_pattern")
    IN  Flatten([slot \in DOMAIN keywordDatabase |->
            Flatten([q \in 1..keywordDatabase[slot].patterns |->
                Flatten([i \in DOMAIN t |->
                    LET ms == found(i, slot, q - 1)
                    IN  [n \in DOMAIN ms |-> fact(ms[n])]])])])

\* Sentence by sentence, that is line by line.
contextAnalysis(t) ==
    Flatten([i \in DOMAIN t |->
        LET ms == Lookup(contextTable, t[i], << >>)
        IN  [n \in DOMAIN ms |->
                Fact(ms[n].slot, keywordDatabase[ms[n].slot].subcategory, ms[n].text,
                     contextConfidence(ms[n].matchCount,
                                       keywordDatabase[ms[n].slot].contextWords),
                     "context_analysis")]])

keywordScanning(t) ==
    LET found(i, slot, k) ==
            SelectSeq(Lookup(keywordTable, t[i], << >>),
                      LAMBDA m : m.slot = slot /\ m.keyword = k)
    IN  Flatten([slot \in DOMAIN keywordDatabase |->
            Flatten([k \in 1..keywordDatabase[slot].keywords |->
                Flatten([i \in DOMAIN t |->
                    LET ms == found(i, slot, k)
                    IN  [n \in DOMAIN ms |->
                            Fact(slot, k, ms[n].text,
                                 calculateKeywordConfidence(ms[n].text, ms[n].equal),
                                 "keyword_scanning")]])])])

\* The items of all categories in the order they are pushed; the semantic
\* pass is skipped while nlpLib is null.
multiLayerExtraction(t) ==
    exactPatternMatching(t) \o contextAnalysis(t) \o keywordScanning(t)

\* A similarity is the fraction [num, den].
calculateTextSimilarity(text1, text2) ==
    IF text1 = "" \/ text2 = "" THEN [num |-> 0, den |-> 1]
    ELSE LET a == Lookup(lowerTable, text1, text1)
             b == Lookup(lowerTable, text2, text2)
             words1 == wordsTable[a]
             words2 == wordsTable[b]
         IN  IF a = b THEN [num |-> 1, den |-> 1]
             ELSE IF <<a, b>> \in includesText \/ <<b, a>> \in includesText
             THEN [num |-> 9, den |-> 10]
             ELSE [num |-> Cardinality(words1 \cap words2),
                   den |-> Cardinality(words1 \cup words2)]

\* similarity > tenths / 10
exceeds(similarity, tenths) == similarity.num * 10 > tenths * similarity.den

\* isDuplicate with the one threshold 0.9 whatever the subcategories: a test
\* the deduplication bound must tell from the code's.
isNearlyEqual(newItem, existingItems) ==
    \E n \in DOMAIN existingItems :
        exceeds(calculateTextSimilarity(newItem.text, existingItems[n].text), 9)

isDuplicate(newItem, existingItems) ==
    \E n \in DOMAIN existingItems :
        LET similarity == calculateTextSimilarity(newItem.text, existingItems[n].text)
        IN  \/ exceeds(similarity, 8)
            \/ /\ newItem.subcategory = existingItems[n].subcategory
               /\ exceeds(similarity, 6)

\* The items as they were pushed, without the sort.
inDiscoveryOrder(items) == items

\* items.sort((a, b) => b.confidence - a.confidence); the sort is stable.
sortByConfidence(items) ==
    LET D == DOMAIN items
        before(j, i) ==
            \/ greater(items[j].confidence, items[i].confidence)
            \/ items[j].confidence = items[i].confidence /\ j <= i
    IN  [k \in D |->
            items[CHOOSE i \in D : Cardinality({j \in D : before(j, i)}) = k]]

RECURSIVE keepDistinct(_, _)
\* items.forEach(item => { if (!isDuplicate(item, deduped)) deduped.push(item) })
keepDistinct(items, deduped) ==
    IF items = << >> THEN deduped
    ELSE IF isDuplicate(Head(items), deduped)
    THEN keepDistinct(Tail(items), deduped)
    ELSE keepDistinct(Tail(items), Append(deduped, Head(items)))

\* The deduplication of the items of one category.
deduplicate(items) == keepDistinct(sortByConfidence(items), << >>)

\* extractedKeywords: category by category the items of a sequence.
intelligentDeduplication(items) ==
    [category \in {"personal", "education", "skills", "experience", "achievements"} |->
        deduplicate(SelectSeq(items, LAMBDA m : m.category = category))]

\* extractKeywords with isEnabled.  The overall confidence and the
\* statistics, which no score reads, are left out.
extractKeywords2(t) ==
    [available |-> TRUE, isAIEnhanced |-> TRUE,
     extractedKeywords |-> intelligentDeduplication(multiLayerExtraction(t))]

\* isEnabled && isReady; init sets isReady with or without the NLP library.
isAvailable2(enabled) == enabled

(***************************************************************************)
(* ResumeScorer of the AI revision (part_000, first class)                 *)
(***************************************************************************)
analyzeBasicInfo2(t, aiExtraction) ==
    LET personalItems == aiExtraction.extractedKeywords.personal
        ai(subcategory) ==
            \E i \in DOMAIN personalItems :
                /\ above(personalItems[i].confidence, 150)
                /\ personalItems[i].subcategory = subcategory
        has == t # << >>
        \* if (!info.x && test) { info.x = true; count++ }
        added == [name |-> has /\ ~ai("name") /\ hasName(t),
                  phone |-> has /\ ~ai("phone") /\ textTest("phone", t),
                  email |-> has /\ ~ai("email") /\ textTest("email", t),
                  address |-> has /\ ~ai("address") /\ textTest("address", t)]
        \* counted whenever the test holds: intentionCounted is not set by the
        \* AI path
        other == [intention |-> has /\ textTest("intention", t),
                  website |-> has /\ textTest("website", t),
                  social |-> has /\ textTest("social", t),
                  birthday |-> has /\ textTest("birthday", t),
                  political |-> has /\ textTest("political", t)]
        aiFound == [k \in {"name", "phone", "email", "address", "intention"} |-> ai(k)]
        info == [name |-> ai("name") \/ added.name,
                 phone |-> ai("phone") \/ added.phone,
                 email |-> ai("email") \/ added.email,
                 address |-> ai("address") \/ added.address,
                 intention |-> ai("intention") \/ other.intention,
                 website |-> other.website,
                 social |-> other.social,
                 birthday |-> other.birthday,
                 political |-> other.political]
        count == trueCount(aiFound) + trueCount(added) + trueCount(other)
    IN  [info |-> info, count |-> Min(count, 10)]

analyzeSkills2(t, aiExtraction) ==
    LET skillItems == aiExtraction.extractedKeywords.skills
        \* whichever the subcategory, a bucket takes the skills the text of
        \* the item includes
        found(bucket) ==
            {k \in 1..skillKeywords2[bucket] :
                \/ \E i \in DOMAIN skillItems :
                        /\ above(skillItems[i].confidence, 120)
                        /\ includesSkill(2, skillItems[i].text, bucket, k)
                \/ /\ t # << >>
                   /\ \/ textIncludes(2, t, bucket, k)
                      \/ textIncludesStripped(2, t, bucket, k)
                      \/ fuzzyMatch(2, t, bucket, k)}
        skills == [bucket \in DOMAIN skillKeywords2 |-> found(bucket)]
    IN  [programming |-> skills.programming, design |-> skills.design,
         data |-> skills.data, engineering |-> skills.engineering,
         languages |-> skills.languages, business |-> skills.business,
         arts |-> skills.arts,
         total |-> SetSum([b \in DOMAIN skillKeywords2 |-> Cardinality(skills[b])],
                          DOMAIN skillKeywords2)]

extractDegrees2(t, aiExtraction) ==
    LET educationItems == aiExtraction.extractedKeywords.education
        ai == Flatten([i \in DOMAIN educationItems |->
                  IF /\ above(educationItems[i].confidence, 150)
                     /\ educationItems[i].text \in DOMAIN aiDegreeTable
                  THEN <<aiDegreeTable[educationItems[i].text]>>
                  ELSE << >>])
        degrees == IF ai # << >> THEN ai ELSE patternDegrees(degreeTable, t)
    IN  dedupe(degrees)

analyzeEducation2(t, aiExtraction) ==
    educationOf(t, extractDegrees2(t, aiExtraction))

analyzeExperience2(t, aiExtraction) ==
    LET experienceItems == aiExtraction.extractedKeywords.experience
        counted(m, subcategory, regex) ==
            /\ above(m.confidence, 150)
            /\ m.subcategory = subcategory \/ test(regex, m.text)
        internshipCount ==
            Len(SelectSeq(experienceItems, LAMBDA m : counted(m, "internship", "incIntern")))
        projectCount ==
            Len(SelectSeq(experienceItems, LAMBDA m : counted(m, "project", "incProject")))
    IN  experienceOf(t, Max(internshipCount, traditionalInternshipCount(t)),
                     Max(projectCount, traditionalProjectCount(t)))

traditionalAchievementAnalysis2(t) ==
    [NoDetails EXCEPT
        !.chairman = matchCount("chairmanOrg", t) + matchCount("chairmanAny", t),
        !.minister = matchCount("ministerOrg", t) + matchCount("ministerAny", t),
        !.nationalHonor = matchCount("natScholG", t),
        !.provincialHonor = matchCount("provScholG", t),
        !.schoolHonor = matchCount("schoolScholG", t),
        !.internationalComp = matchCount("intlCompG", t),
        !.nationalComp = matchCount("natCompG", t),
        !.provincialComp = matchCount("provCompG", t),
        !.advancedCert = matchCount("advCertG", t),
        !.generalCert = matchCount("genCertG", t)]

\* The key of details the if / else-if chain of analyzeAchievements adds one
\* to for an item, "" if none.  The items carry no category field, so
\* item.category || item.subcategory is the subcategory.
classify(m) ==
    LET category == m.subcategory
        is(regex) == test(regex, m.text)
    IN  IF category = "scholarship" \/ is("isSchol")
        THEN (IF is("natSchol") THEN "nationalHonor"
              ELSE IF is("provSchol") THEN "provincialHonor"
              ELSE "schoolHonor")
        ELSE IF category = "honor" \/ is("isHonor")
        THEN (IF is("natHonor") THEN "nationalHonor"
              ELSE IF is("provHonor") THEN "provincialHonor"
              ELSE "schoolHonor")
        ELSE IF category = "competition" \/ is("isComp")
        THEN (IF is("intlComp2") THEN "internationalComp"
              ELSE IF is("natComp2") THEN "nationalComp"
              ELSE IF is("provComp2") THEN "provincialComp"
              ELSE "schoolComp")
        ELSE IF category = "certificate" \/ is("isCert")
        THEN (IF is("advCert2") THEN "advancedCert" ELSE "generalCert")
        ELSE IF category = "leadership" \/ is("isLeader")
        THEN (IF is("chairman") THEN "chairman"
              ELSE IF is("minister") THEN "minister"
              ELSE "member")
        ELSE ""

\* threw: the assignment details = this.traditionalAchievementAnalysis(text)
\* to the const details raises a TypeError.
analyzeAchievements2(t, aiExtraction) ==
    LET achievementItems == aiExtraction.extractedKeywords.achievements
        aiCount(key) ==
            Len(SelectSeq(achievementItems,
                    LAMBDA m : above(m.confidence, 120) /\ classify(m) = key))
        details == [key \in DOMAIN NoDetails |-> aiCount(key)]
        traditionalDetails == traditionalAchievementAnalysis2(t)
        merged == [key \in DOMAIN NoDetails |->
                      Max(details[key], traditionalDetails[key])]
    IN  IF details = NoDetails THEN [threw |-> TRUE]
        ELSE [threw |-> FALSE] @@ achievementScores(merged)

scoreSkillsDetailed2(analysis) ==
    skillScores(analysis.skills,
                [programming |-> 5, design |-> 4, data |-> 4, engineering |-> 3,
                 languages |-> 3, business |-> 2, arts |-> 3])

calculateScores2(analysis) ==
    [basicInfo |-> scoreBasicInfoDetailed(analysis),
     education |-> scoreEducationDetailed(analysis),
     skills |-> scoreSkillsDetailed2(analysis),
     experience |-> scoreExperienceDetailed(analysis),
     achievements |-> scoreAchievementsDetailed(analysis)]

\* The extra scores of experience are in half points: floor(extra / 2).
detectSpecialization2(analysis) ==
    LET skills == analysis.skills
        experience == analysis.experience
        extraScore == analysis.achievements.extraScore
        totalExtraScore == extraScore.leadership + extraScore.honor
                            + extraScore.competition + extraScore.certificate
    IN  skillSpecialization(skills, "programming", 5, 6)
        \o skillSpecialization(skills, "data", 4, 5)
        \o skillSpecialization(skills, "design", 4, 5)
        \o skillSpecialization(skills, "engineering", 3, 4)
        \o skillSpecialization(skills, "languages", 3, 4)
        \o skillSpecialization(skills, "business", 3, 3)
        \o skillSpecialization(skills, "arts", 4, 4)
        \o specialization(experience.internshipExtraScore > 0, "internship",
                          experience.internshipCount,
                          Min(experience.internshipExtraScore \div 4, 6))
        \o specialization(experience.projectExtraScore > 0, "project",
                          experience.projectCount,
                          Min(experience.projectExtraScore \div 4, 6))
        \o specialization(experience.academicExtraScore > 0, "academic",
                          countPapers(analysis.originalText),
                          Min(experience.academicExtraScore \div 4, 6))
        \o specialization(totalExtraScore > 0, "achievement", totalExtraScore,
                          Min(totalExtraScore \div 2, 6))

\* hasStructure, aiConfidence, aiStats and the processing time, which no
\* score reads, are left out.
analyzeResume2(t, enabled) ==
    LET aiExtraction == IF isAvailable2(enabled) THEN extractKeywords2(t)
                        ELSE NoExtraction
    IN  [originalText |-> t,
         basicInfo |-> analyzeBasicInfo2(t, aiExtraction),
         education |-> analyzeEducation2(t, aiExtraction),
         skills |-> analyzeSkills2(t, aiExtraction),
         experience |-> analyzeExperience2(t, aiExtraction),
         achievements |-> analyzeAchievements2(t, aiExtraction),
         wordCount |-> textLength(t),
         aiEnhanced |-> aiExtraction.isAIEnhanced]

\* The TypeError of analyzeAchievements is caught nowhere.
scoreResume2(t, enabled) ==
    LET analysis == analyzeResume2(t, enabled)
    IN  IF analysis.achievements.threw THEN [status |-> "threw"]
        ELSE resultOf(analysis, calculateScores2(analysis),
                      detectSpecialization2(analysis))

(***************************************************************************)
(* Job recommendations (match in half points)                              *)
(*                                                                         *)
(* Categories: SoftwareEngineer 软件开发工程师, DataAnalyst 数据分析师,      *)
(* ProductDesigner 产品设计师, Engineering 工程技术岗位, Arts 文体艺术相关    *)
(* 岗位, ResearchAssistant 学术研究/科研助理, BusinessOperations 商务运营,    *)
(* InternationalBusiness 国际化业务, SeniorSoftwareEngineer 高级软件工程师,   *)
(* DoctoralResearch 博士研究生/高级研发, SeniorDataScientist 高级数据科学家,  *)
(* TopCompanyTrainee 知名企业管培生, ManagementTrainee 管理培训生.           *)
(***************************************************************************)
\* One optional entry of the jobs list.
job(condition, category, match) ==
    IF condition THEN <<[category |-> category, match |-> match]>> ELSE << >>

\* topJobs without the sort: a list the order of the recommendations must
\* tell from the code's.
topJobsUnsorted(jobs, limit) ==
    LET U == {i \in DOMAIN jobs :
                \A j \in 1..(i - 1) : jobs[j].category # jobs[i].category}
        unique == [k \in 1..Cardinality(U) |->
                    jobs[CHOOSE i \in U : Cardinality({j \in U : j <= i}) = k]]
    IN  SubSeq(unique, 1, Min(Len(unique), limit))

\* jobs.filter(first of its category).sort((a, b) => b.match - a.match)
\* .slice(0, limit); the sort is stable.
topJobs(jobs, limit) ==
    LET U == {i \in DOMAIN jobs :
                \A j \in 1..(i - 1) : jobs[j].category # jobs[i].category}
        before(j, i) == jobs[j].match > jobs[i].match
                            \/ (jobs[j].match = jobs[i].match /\ j <= i)
        sorted == [k \in 1..Cardinality(U) |->
                    jobs[CHOOSE i \in U : Cardinality({j \in U : before(j, i)}) = k]]
    IN  SubSeq(sorted, 1, Min(Len(sorted), limit))

\* The jobs array of recommendJobs of resume-parser.js and of the third
\* revision, before the filter.
jobCandidates(analysis, specializations) ==
    LET skills == analysis.skills
        experience == analysis.experience
        n(type) == Cardinality(skills[type])
        jobs ==
            job(n("programming") > 0, "SoftwareEngineer",
                Min(150 + n("programming") * 10, 190))
            \o job(n("data") > 0, "DataAnalyst", Min(140 + n("data") * 12, 180))
            \o job(n("design") > 0, "ProductDesigner", Min(130 + n("design") * 14, 176))
            \o job(n("engineering") > 0, "Engineering",
                   Min(120 + n("engineering") * 16, 170))
            \o job(n("arts") > 0, "Arts", Min(120 + n("arts") * 12, 160))
            \o job(experience.academicScore > 0, "ResearchAssistant",
                   Min(120 + experience.academicScore * 2, 170))
            \o job(experience.internshipScore > 0, "BusinessOperations",
                   Min(120 + experience.internshipScore, 170))
            \o Flatten([i \in DOMAIN specializations |->
                    LET spec == specializations[i]
                    IN  job(spec.type = "programming" /\ spec.level >= 5,
                            "SeniorSoftwareEngineer", 180)
                        \o job(spec.type = "academic" /\ spec.level >= 3,
                               "DoctoralResearch", 176)])
        trainee == IF analysis.education.schoolLevel >= 11
                   THEN job(TRUE, "TopCompanyTrainee", 150)
                   ELSE job(TRUE, "ManagementTrainee", 120)
    IN  IF jobs = << >> THEN trainee ELSE jobs

\* The jobs array of recommendJobs of the AI revision: 5 more for a
\* specialization of the dimension, added after the cap.
jobCandidates2(analysis, specializations) ==
    LET skills == analysis.skills
        experience == analysis.experience
        n(type) == Cardinality(skills[type])
        plus(type) == IF \E i \in DOMAIN specializations :
                            specializations[i].type = type
                      THEN 10 ELSE 0
        jobs ==
            job(n("programming") > 0, "SoftwareEngineer",
                Min(140 + n("programming") * 8, 190) + plus("programming"))
            \o job(n("data") > 0, "DataAnalyst",
                   Min(130 + n("data") * 10, 180) + plus("data"))
            \o job(n("design") > 0, "ProductDesigner",
                   Min(120 + n("design") * 12, 176) + plus("design"))
            \o job(n("engineering") > 0, "Engineering",
                   Min(110 + n("engineering") * 14, 170) + plus("engineering"))
            \o job(n("business") > 0, "BusinessOperations",
                   Min(110 + n("business") * 12, 164) + plus("business"))
            \o job(n("languages") >= 2, "InternationalBusiness",
                   Min(120 + n("languages") * 16, 170) + plus("languages"))
            \o job(n("arts") > 0, "Arts", Min(100 + n("arts") * 10, 160) + plus("arts"))
            \o job(experience.academicScore > 0, "ResearchAssistant",
                   Min(110 + experience.academicScore * 2, 170) + plus("academic"))
            \o Flatten([i \in DOMAIN specializations |->
                    LET spec == specializations[i]
                    IN  job(spec.type = "programming" /\ spec.level >= 6,
                            "SeniorSoftwareEngineer", 184)
                        \o job(spec.type = "academic" /\ spec.level >= 3,
                               "DoctoralResearch", 180)
                        \o job(spec.type = "data" /\ spec.level >= 5,
                               "SeniorDataScientist", 182)])
        trainee == IF analysis.education.schoolLevel >= 11
                   THEN job(TRUE, "TopCompanyTrainee", 150)
                   ELSE job(TRUE, "ManagementTrainee", 120)
    IN  IF jobs = << >> THEN trainee ELSE jobs

\* The jobs array without the management trainees of an empty array.
jobsOfWithoutTrainee(rev, analysis, specializations) ==
    SelectSeq(IF rev = 2 THEN jobCandidates2(analysis, specializations)
              ELSE jobCandidates(analysis, specializations),
              LAMBDA j : j.category \notin {"TopCompanyTrainee", "ManagementTrainee"})

\* The jobs array of the revision the page runs.
jobsOf(rev, analysis, specializations) ==
    IF rev = 2 THEN jobCandidates2(analysis, specializations)
    ELSE jobCandidates(analysis, specializations)

\* recommendJobs: slice(0, 4), and slice(0, 5) in the AI revision.
recommendJobs(rev, analysis, specializations) ==
    topJobs(jobsOf(rev, analysis, specializations), IF rev = 2 THEN 5 ELSE 4)

(***************************************************************************)
(* Suggestions                                                             *)
(*                                                                         *)
(* A suggestion is named by what it asks for; "closing" is                 *)
(* 简历质量很好！建议针对不同岗位定制化调整.  A confidence is in units of 1/300 and *)
(* the scores of analysis.experience are in half points.                   *)
(***************************************************************************)
\* suggestions.push(...) under a condition.
suggest(condition, suggestion) == IF condition THEN <<suggestion>> ELSE << >>

\* The suggestions every revision makes from the scores, up to the one for
\* the school; the AI revision has its own for the skills and one more for
\* the achievements.
scoreSuggestions(rev, scores, analysis) ==
    LET education == analysis.education
        experience == analysis.experience
        emptyBuckets == {b \in DOMAIN analysis.skills : analysis.skills[b] = 0}
    IN  suggest(scores.basicInfo.total < 8, "basicInfo")
        \o suggest(scores.education.total < 20 /\ ~education.hasGPA, "gpa")
        \o suggest(scores.education.total < 20 /\ education.degreeScore < 3, "degree")
        \o suggest(scores.education.total < 20, "school")
        \o (IF rev = 2
            THEN suggest(scores.skills.total < 12 /\ emptyBuckets # {}, "emptyBuckets")
                 \o suggest(scores.skills.total < 12, "skillDetail")
            ELSE suggest(scores.skills.total < 12, "skills")
                 \o suggest(scores.skills.total < 12, "arts"))
        \o suggest(scores.experience.total < 20 /\ experience.internshipScore < 12,
                   "internship")
        \o suggest(scores.experience.total < 20 /\ experience.projectScore < 12,
                   "project")
        \o suggest(scores.experience.total < 20 /\ experience.academicScore = 0,
                   "academic")
        \o suggest(scores.achievements.total < 8, "competition")
        \o suggest(scores.achievements.total < 8, "leadership")
        \o suggest(rev = 2 /\ scores.achievements.total < 8, "certificate")
        \o suggest(education.schoolLevel >= 13, "prestige")

\* generateSuggestions with the closing message whatever was suggested: a
\* list the test of suggestions.length must tell from the code's.
generateSuggestionsAlwaysClosing(rev, scores, analysis) ==
    scoreSuggestions(rev, scores, analysis) \o <<"closing">>

\* generateSuggestions.  The third revision has no suggestion from the
\* confidence; the AI revision has two more from aiStats (coverageScore and
\* qualityScore, here named by whether they are below 0.6 and 0.5) and one
\* for the buckets of 3 skills or more.
generateSuggestions(rev, scores, analysis) ==
    LET ai == rev # 3 /\ analysis.aiEnhanced
        strongSkills == {b \in DOMAIN analysis.skills : analysis.skills[b] >= 3}
        suggestions ==
            scoreSuggestions(rev, scores, analysis)
            \o suggest(ai /\ analysis.aiConfidence > 240, "aiClear")
            \o suggest(ai /\ analysis.aiConfidence < 150, "aiFormat")
            \o suggest(rev = 2 /\ ai /\ analysis.aiStats.lowCoverage, "coverage")
            \o suggest(rev = 2 /\ ai /\ analysis.aiStats.lowQuality, "quality")
            \o suggest(rev = 2 /\ strongSkills # {}, "strongSkills")
    IN  IF suggestions = << >> THEN <<"closing">> ELSE suggestions
(***************************************************************************)
(* The normalizers of a text                                               *)
(*                                                                         *)
(* A string is a sequence of characters: "a" for a character that is no    *)
(* white space, "sp" for a space, "cr" and "lf" for the two line breaks.   *)
(* The replacements of punctuation, of dates and of "===", which touch     *)
(* none of these characters, are left out.                                 *)
(***************************************************************************)
\* The characters \s matches.
whiteSpace == {"sp", "cr", "lf"}

\* The number of characters of `set` a string starts with.
runLength(s, set) ==
    IF \A i \in DOMAIN s : s[i] \in set THEN Len(s)
    ELSE (CHOOSE i \in DOMAIN s : s[i] \notin set /\ \A j \in 1..(i - 1) : s[j] \in set) - 1

RECURSIVE replacePair(_, _, _, _)
\* s.replace(/xy/g, to) for two characters x and y
replacePair(s, x, y, to) ==
    IF Len(s) < 2 THEN s
    ELSE IF s[1] = x /\ s[2] = y
    THEN <<to>> \o replacePair(SubSeq(s, 3, Len(s)), x, y, to)
    ELSE <<s[1]>> \o replacePair(Tail(s), x, y, to)

\* s.replace(/x/g, to) for one character x
replaceChar(s, x, to) == [i \in DOMAIN s |-> IF s[i] = x THEN to ELSE s[i]]

RECURSIVE replaceRuns(_, _, _, _)
\* s.replace(/[set]{least,}/g, to)
replaceRuns(s, set, least, to) ==
    IF s = << >> THEN << >>
    ELSE LET n == runLength(s, set)
         IN  IF n = 0 THEN <<s[1]>> \o replaceRuns(Tail(s), set, least, to)
             ELSE (IF n >= least THEN to ELSE SubSeq(s, 1, n))
                    \o replaceRuns(SubSeq(s, n + 1, Len(s)), set, least, to)

RECURSIVE replaceBlankLines(_)
\* s.replace(/\n\s*\n\s*\n/g, '\n\n'): in a run of white space with three
\* line feeds or more, the first line feed to the last one.
replaceBlankLines(s) ==
    IF s = << >> THEN << >>
    ELSE LET n == runLength(s, whiteSpace)
             feeds == {i \in 1..n : s[i] = "lf"}
             first == CHOOSE i \in feeds : \A j \in feeds : i <= j
             last == CHOOSE i \in feeds : \A j \in feeds : i >= j
         IN  IF n = 0 THEN <<s[1]>> \o replaceBlankLines(Tail(s))
             ELSE (IF Cardinality(feeds) >= 3
                   THEN SubSeq(s, 1, first - 1) \o <<"lf", "lf">> \o SubSeq(s, last + 1, n)
                   ELSE SubSeq(s, 1, n))
                    \o replaceBlankLines(SubSeq(s, n + 1, Len(s)))

\* s.trim()
trim(s) ==
    LET black == {i \in DOMAIN s : s[i] \notin whiteSpace}
    IN  IF black = {} THEN << >>
        ELSE SubSeq(s, CHOOSE i \in black : \A j \in black : i <= j,
                       CHOOSE i \in black : \A j \in black : i >= j)

RECURSIVE split(_)
\* s.split('\n')
split(s) ==
    LET n == runLength(s, {"a", "sp", "cr"})
    IN  IF n = Len(s) THEN <<s>>
        ELSE <<SubSeq(s, 1, n)>> \o split(SubSeq(s, n + 2, Len(s)))

RECURSIVE join(_)
\* lines.join('\n')
join(lines) ==
    IF lines = << >> THEN << >>
    ELSE IF Len(lines) = 1 THEN lines[1]
    ELSE lines[1] \o <<"lf">> \o join(Tail(lines))

\* AIKeywordExtractor.preprocessText (i18n.js)
preprocessText(s) ==
    trim(replaceBlankLines(
        replaceRuns(replaceChar(replacePair(s, "cr", "lf", "lf"), "cr", "lf"),
                    whiteSpace, 1, <<"sp">>)))

\* ResumeParser.basicTextCleaning of the later revision: the control
\* characters it removes, \u0000 to \u001F, hold the line feed.
basicTextCleaning(s) ==
    trim(replaceRuns(
            replaceRuns(
                SelectSeq(replaceChar(replacePair(s, "cr", "lf", "lf"), "cr", "lf"),
                          LAMBDA c : c \notin {"cr", "lf"}),
                {"sp"}, 2, <<"sp">>),
            {"lf"}, 3, <<"lf", "lf">>))

\* ResumeParser.finalTextCleaning (resume-parser.js)
finalTextCleaning(s) ==
    LET lines == split(s)
        trimmed == [i \in DOMAIN lines |-> trim(lines[i])]
    IN  trim(join(SelectSeq(trimmed, LAMBDA line : Len(line) > 0)))

\* ResumeParser.aiEnhancedTextCleaning (resume-parser.js) with no keyword
\* extractor on the page
aiEnhancedTextCleaning(s) ==
    finalTextCleaning(
        trim(replaceBlankLines(
            replaceRuns(replaceChar(replacePair(s, "cr", "lf", "lf"), "cr", "lf"),
                        {"sp"}, 1, <<"sp">>))))


(***************************************************************************)
(* The page: one scorer, one extractor, one resume text                    *)
(***************************************************************************)
\* scoreResume of the revision the page runs.
scoreResume(rev, enabled, t) ==
    IF rev = 1 THEN scoreResume1(t, enabled)
    ELSE IF rev = 2 THEN scoreResume2(t, enabled)
    ELSE scoreResume3(t)

\* The items the passes of the extractor push while analyzeResume runs, in
\* push order: none when the extractor is not available.
extractedFacts(rev, enabled, t) ==
    IF rev = 1 /\ isAvailable(enabled)
    THEN LET found == enhancedRegexExtraction(t)
         IN  found.education \o found.experience \o found.skills
                \o found.achievements \o found.personal
    ELSE IF rev = 2 /\ isAvailable2(enabled) THEN multiLayerExtraction(t)
    ELSE << >>

\* The resume texts: at most MaxLines catalogue lines, in catalogue order.
position(id) == CHOOSE i \in DOMAIN Catalogue : Catalogue[i] = id

Texts ==
    {t \in UNION {[1..n -> {Catalogue[i] : i \in DOMAIN Catalogue}] : n \in 0..MaxLines} :
        \A i \in DOMAIN t : \A j \in DOMAIN t :
            i < j => position(t[i]) <= position(t[j])}

\* The results object intelligentDeduplication has not run on yet.
NoKept ==
    [category \in {"personal", "education", "skills", "experience", "achievements"} |->
        << >>]

\* One scorer and one extractor, constructed; AI mode is read from
\* localStorage, so either value may be the start.
ScorerInit ==
    /\ revision \in 1..3
    /\ isEnabled \in (IF revision = 3 THEN {FALSE} ELSE BOOLEAN)
    /\ result = [status |-> "none"]
    /\ facts = << >>
    /\ kept = NoKept

\* An AIEnhancer no call has been made on, without a model.
EnhancerIdle ==
    /\ aiEnabled = FALSE
    /\ model = "null"
    /\ isLoading = FALSE
    /\ loads = 0
    /\ enhance = [at |-> "idle", sentences |-> 0]
    /\ enhanced = "none"

\* A ResumeScoreApp no analysis has been started on.
AppIdle ==
    /\ isProcessing = FALSE
    /\ toast = "none"
    /\ uploading = 0
    /\ analyzing = 0
    /\ timers = 0
    /\ currentAnalysis = [status |-> "none"]

\* No method has been called on its own.
NoCall ==
    /\ call = [method |-> "none"]
    /\ returned = [status |-> "none"]

Init ==
    /\ ScorerInit
    /\ text \in Texts
    /\ EnhancerIdle
    /\ AppIdle
    /\ NoCall

\* new ResumeScorer().scoreResume(text)
ScoreResume ==
    /\ result' = scoreResume(revision, isEnabled, text)
    /\ facts' = extractedFacts(revision, isEnabled, text)
    /\ UNCHANGED <<revision, isEnabled, text, kept>>
    /\ UNCHANGED <<enhancerVars, appVars, callVars>>

\* AIKeywordExtractor.toggleMode()
ToggleMode ==
    /\ revision \in {1, 2}
    /\ isEnabled' = ~isEnabled
    /\ UNCHANGED <<revision, text, result, facts, kept>>
    /\ UNCHANGED <<enhancerVars, appVars, callVars>>

\* The user adds one more internship line to the text.
AddInternship ==
    /\ Len(text) < MaxLines
    /\ text' = Append(text, "intern1")
    /\ UNCHANGED <<revision, isEnabled, result, facts, kept>>
    /\ UNCHANGED <<enhancerVars, appVars, callVars>>

Next == ScoreResume \/ ToggleMode \/ AddInternship

Spec == Init /\ [][Next]_vars

(***************************************************************************)
(* The deduplication of AIKeywordExtractor (i18n.js) on its own            *)
(*                                                                         *)
(* facts holds the items of a results object: those one extraction pushed, *)
(* or items pushed one by one with texts that make every branch of         *)
(* calculateTextSimilarity happen.                                         *)
(***************************************************************************)
\* Texts of the items pushed one by one: "", "a", "A ", "a b", "b a",
\* "a b c" and "c d".
FactTexts == {"", "syn.a", "syn.A", "syn.ab", "syn.ba", "syn.abc", "syn.cd"}

\* Their slots of keywordDatabase: two subcategories of one category.
FactSlots == {slot \in DOMAIN keywordDatabase :
                keywordDatabase[slot].subcategory \in {"name", "phone"}}

\* Their confidences: 0.5 and 0.9.
FactConfidences == {Confidence(150, 0), Confidence(270, 0)}

DedupInit ==
    /\ revision = 2
    /\ isEnabled = TRUE
    /\ text = << >>
    /\ result = [status |-> "none"]
    /\ facts = << >>
    /\ kept = NoKept
    /\ EnhancerIdle
    /\ AppIdle
    /\ NoCall

\* results[category].push(item), before the deduplication
PushFact ==
    /\ kept = NoKept
    /\ Len(facts) < MaxFacts
    /\ \E slot \in FactSlots, factText \in FactTexts, confidence \in FactConfidences :
            facts' = Append(facts, Fact(slot, keywordDatabase[slot].subcategory,
                                        factText, confidence, "exact_pattern"))
    /\ UNCHANGED <<revision, isEnabled, text, result, kept>>
    /\ UNCHANGED <<enhancerVars, appVars, callVars>>

\* multiLayerExtraction(text) of a text of one line, into fresh results
MultiLayerExtraction ==
    /\ facts = << >>
    /\ kept = NoKept
    /\ \E t \in {line \in Texts : Len(line) = 1} :
            /\ text' = t
            /\ facts' = multiLayerExtraction(t)
    /\ UNCHANGED <<revision, isEnabled, result, kept>>
    /\ UNCHANGED <<enhancerVars, appVars, callVars>>

\* intelligentDeduplication(results)
IntelligentDeduplication ==
    /\ kept' = intelligentDeduplication(facts)
    /\ UNCHANGED <<revision, isEnabled, text, result, facts>>
    /\ UNCHANGED <<enhancerVars, appVars, callVars>>

DedupNext == PushFact \/ MultiLayerExtraction \/ IntelligentDeduplication

DedupSpec == DedupInit /\ [][DedupNext]_vars

(***************************************************************************)
(* The analyses of the page as processes: analyzeResume of ResumeScoreApp  *)
(* (script.js) and enhanceResumeAnalysis of AIEnhancer (ai-enhancer.js)    *)
(*                                                                         *)
(* The sentence encoder (use.load(), model.embed(), embeddings.data()) is  *)
(* outside the program: each of its promises may resolve, reject or stay   *)
(* pending.                                                                *)
(***************************************************************************)
\* The constructor of AIEnhancer ran init(): with AI mode on and
\* TensorFlow.js loaded, loadModel() is pending.
LiveInit ==
    /\ ScorerInit
    /\ text \in {line \in Texts : Len(line) <= 1}
    /\ aiEnabled \in BOOLEAN
    /\ model = "null"
    /\ isLoading \in (IF aiEnabled THEN BOOLEAN ELSE {FALSE})
    /\ loads = IF isLoading THEN 1 ELSE 0
    /\ enhance = [at |-> "idle", sentences |-> 0]
    /\ enhanced = "none"
    /\ AppIdle
    /\ NoCall

\* loadModel() without its test of this.model and this.isLoading
loadModelUnguarded ==
    /\ isLoading' = TRUE
    /\ loads' = loads + 1
    /\ UNCHANGED model

\* loadModel() up to its await of use.load()
loadModelCall ==
    IF model # "null" \/ isLoading
    THEN UNCHANGED <<model, isLoading, loads>>
    ELSE /\ isLoading' = TRUE
         /\ loads' = loads + 1
         /\ UNCHANGED model

\* loadModel() called on its own, as the handlers of visibilitychange and
\* online of script.js call it, or by any other caller
LoadModel ==
    /\ loadModelCall
    /\ UNCHANGED <<aiEnabled, enhance, enhanced>>
    /\ UNCHANGED <<scoringVars, facts, kept, appVars, callVars>>

\* AIEnhancer.toggleAIMode(), with the loadModel() it may call
ToggleAIMode ==
    /\ aiEnabled' = ~aiEnabled
    /\ IF aiEnabled' /\ model = "null"
       THEN loadModelCall
       ELSE UNCHANGED <<model, isLoading, loads>>
    /\ UNCHANGED <<enhance, enhanced>>
    /\ UNCHANGED <<scoringVars, facts, kept, appVars, callVars>>

\* use.load() resolves: the rest of loadModel()
ModelLoaded ==
    /\ loads > 0
    /\ loads' = loads - 1
    /\ model' = "loaded"
    /\ isLoading' = FALSE
    /\ UNCHANGED <<aiEnabled, enhance, enhanced>>
    /\ UNCHANGED <<scoringVars, facts, kept, appVars, callVars>>

\* use.load() rejects, or use is not defined: catch and finally of loadModel()
ModelLoadFails ==
    /\ loads > 0
    /\ loads' = loads - 1
    /\ isLoading' = FALSE
    /\ UNCHANGED <<aiEnabled, model, enhance, enhanced>>
    /\ UNCHANGED <<scoringVars, facts, kept, appVars, callVars>>

\* enhanceResumeAnalysis(text) up to its first await, for a text of which
\* splitIntoSentences keeps n sentences.  One call is followed at a time.
EnhanceResumeAnalysis ==
    /\ enhance.at \in {"idle", "returned"}
    /\ \E n \in 0..MaxSentences :
        IF ~aiEnabled \/ model = "null" \/ n = 0
        THEN \* return null, at once or from the catch of the Error thrown
             /\ enhance' = [at |-> "returned", sentences |-> n]
             /\ enhanced' = "null"
        ELSE \* await this.model.embed(sentences)
             /\ enhance' = [at |-> "embedding", sentences |-> n]
             /\ enhanced' = "none"
    /\ UNCHANGED <<aiEnabled, model, isLoading, loads>>
    /\ UNCHANGED <<scoringVars, facts, kept, appVars, callVars>>

\* model.embed() resolves: categorizeContent up to await embeddings.data()
EmbedResolves ==
    /\ enhance.at = "embedding"
    /\ enhance' = [enhance EXCEPT !.at = "data"]
    /\ UNCHANGED <<aiEnabled, model, isLoading, loads, enhanced>>
    /\ UNCHANGED <<scoringVars, facts, kept, appVars, callVars>>

\* embeddings.data() resolves: the rest of enhanceResumeAnalysis
DataResolves ==
    /\ enhance.at = "data"
    /\ enhance' = [enhance EXCEPT !.at = "returned"]
    /\ enhanced' = "enhanced"
    /\ UNCHANGED <<aiEnabled, model, isLoading, loads>>
    /\ UNCHANGED <<scoringVars, facts, kept, appVars, callVars>>

\* model.embed() or embeddings.data() rejects: the catch returns null
EncoderRejects ==
    /\ enhance.at \in {"embedding", "data"}
    /\ enhance' = [enhance EXCEPT !.at = "returned"]
    /\ enhanced' = "null"
    /\ UNCHANGED <<aiEnabled, model, isLoading, loads>>
    /\ UNCHANGED <<scoringVars, facts, kept, appVars, callVars>>

\* analyzeResume() without its test of the length of the text
analyzeResumeAnyLength ==
    /\ IF isProcessing
       THEN toast' = "info" /\ UNCHANGED <<isProcessing, analyzing>>
       ELSE /\ isProcessing' = TRUE
            /\ analyzing' = analyzing + 1
            /\ UNCHANGED toast
    /\ UNCHANGED <<uploading, currentAnalysis>>
    /\ UNCHANGED <<scoringVars, facts, kept, enhancerVars, callVars>>

\* analyzeResume() without its test of isProcessing
analyzeResumeUnguarded ==
    /\ IF textLength(text) < 50
       THEN toast' = "warning" /\ UNCHANGED <<isProcessing, analyzing>>
       ELSE /\ isProcessing' = TRUE
            /\ analyzing' = analyzing + 1
            /\ UNCHANGED toast
    /\ UNCHANGED <<uploading, currentAnalysis>>
    /\ UNCHANGED <<scoringVars, facts, kept, enhancerVars, callVars>>

\* analyzeResume() up to its await of the timer
analyzeResumeCall ==
    /\ IF isProcessing
       THEN toast' = "info" /\ UNCHANGED <<isProcessing, analyzing>>
       ELSE IF textLength(text) < 50
       THEN toast' = "warning" /\ UNCHANGED <<isProcessing, analyzing>>
       ELSE /\ isProcessing' = TRUE
            /\ analyzing' = analyzing + 1
            /\ UNCHANGED toast
    /\ UNCHANGED <<uploading, currentAnalysis>>
    /\ UNCHANGED <<scoringVars, facts, kept, enhancerVars, callVars>>

\* The user clicks the analyze button.
AnalyzeResume == analyzeResumeCall /\ UNCHANGED timers

\* The timer fires: the rest of analyzeResume().  No script of src/ defines
\* AIEnhancedResumeScorer, so new ResumeScorer().scoreResume(text) runs in
\* either mode; displayResults keeps the result, handleError shows the toast
\* of a scorer that threw, and finally clears isProcessing.
FinishAnalysis ==
    /\ analyzing > 0
    /\ analyzing' = analyzing - 1
    /\ isProcessing' = FALSE
    /\ result' = scoreResume(revision, isEnabled, text)
    /\ facts' = extractedFacts(revision, isEnabled, text)
    /\ toast' = IF result'.status = "ok" THEN "success" ELSE "error"
    /\ currentAnalysis' = IF result'.status = "ok" THEN result' ELSE currentAnalysis
    /\ UNCHANGED <<revision, isEnabled, text, kept, uploading, timers>>
    /\ UNCHANGED <<enhancerVars, callVars>>

LiveNext ==
    \/ ToggleAIMode \/ LoadModel \/ ModelLoaded \/ ModelLoadFails
    \/ EnhanceResumeAnalysis \/ EmbedResolves \/ DataResolves \/ EncoderRejects
    \/ AnalyzeResume \/ FinishAnalysis

\* A step that ends the wait of analyzeResume.  The steps of LiveNext that do
\* are those of FinishAnalysis, which is enabled whenever isProcessing holds.
TimerFires == isProcessing /\ isProcessing' = FALSE

\* The event loop runs the callback of a timer that is due; nothing makes
\* the encoder settle a promise or the user click.
LiveSpec == LiveInit /\ [][LiveNext]_vars /\ WF_isProcessing(TimerFires)

(***************************************************************************)
(* The uploads and the analyses of ResumeScoreApp (script.js)              *)
(*                                                                         *)
(* ResumeParser.parseFile is awaited: its promise resolves with the text   *)
(* of the file or rejects.  A file is named by the text it holds.          *)
(***************************************************************************)
\* handleFileUpload(file) up to its await of parseFile, for a file that
\* validateFile accepts or not
HandleFileUpload ==
    /\ \E valid \in BOOLEAN :
        IF isProcessing
        THEN toast' = "info" /\ UNCHANGED <<isProcessing, uploading>>
        ELSE IF ~valid
        THEN toast' = "error" /\ UNCHANGED <<isProcessing, uploading>>
        ELSE /\ timers < MaxTimers
             /\ isProcessing' = TRUE
             /\ uploading' = uploading + 1
             /\ UNCHANGED toast
    /\ UNCHANGED <<analyzing, timers, currentAnalysis>>
    /\ UNCHANGED <<scoringVars, facts, kept, enhancerVars, callVars>>

\* The rest of handleFileUpload without its finally block and without the
\* reset in handleError
ParseSettlesWithoutFinally ==
    /\ uploading > 0
    /\ uploading' = uploading - 1
    /\ \/ \E t \in {line \in Texts : Len(line) <= 1} :
            IF textLength(t) < 50
            THEN toast' = "error" /\ UNCHANGED <<text, timers, isProcessing>>
            ELSE /\ text' = t /\ toast' = "success" /\ timers' = timers + 1
                 /\ isProcessing' = FALSE
       \/ toast' = "error" /\ UNCHANGED <<text, timers, isProcessing>>
    /\ UNCHANGED <<revision, isEnabled, result, facts, kept, analyzing,
                   currentAnalysis>>
    /\ UNCHANGED <<enhancerVars, callVars>>

\* parseFile settles: the rest of handleFileUpload.  It resolves with a
\* text, which is put in the text box and analysed in 500 ms unless it is
\* too short, or it rejects; handleError and finally clear isProcessing.
ParseSettles ==
    /\ uploading > 0
    /\ uploading' = uploading - 1
    /\ isProcessing' = FALSE
    /\ \/ \E t \in {line \in Texts : Len(line) <= 1} :
            IF textLength(t) < 50
            THEN toast' = "error" /\ UNCHANGED <<text, timers>>
            ELSE text' = t /\ toast' = "success" /\ timers' = timers + 1
       \/ toast' = "error" /\ UNCHANGED <<text, timers>>
    /\ UNCHANGED <<revision, isEnabled, result, facts, kept, analyzing,
                   currentAnalysis>>
    /\ UNCHANGED <<enhancerVars, callVars>>

\* A timer of handleFileUpload is due: this.analyzeResume()
AutoAnalyze ==
    /\ timers > 0
    /\ timers' = timers - 1
    /\ analyzeResumeCall

PageNext ==
    \/ HandleFileUpload \/ ParseSettles \/ AutoAnalyze
    \/ AnalyzeResume \/ FinishAnalysis

\* The promise of parseFile settles and the timer of analyzeResume comes due:
\* the event loop then runs the rest of the method.  Nothing makes the user
\* upload or click.
PageSpec ==
    /\ LiveInit
    /\ [][PageNext]_vars
    /\ WF_uploading(uploading > 0 /\ uploading' = uploading - 1)
    /\ WF_analyzing(analyzing > 0 /\ analyzing' = analyzing - 1)

(***************************************************************************)
(* Methods of ResumeScorer called on their own, and the normalizers of the  *)
(* parser and of the extractor                             *)
(*                                                                         *)
(* call holds the method and the arguments of one call, drawn from the     *)
(* values the page can hand to the method; returned holds what it returns. *)
(***************************************************************************)
\* The names getSchoolRankScore is called with: every name of
\* this.schoolRanks, and names of institutions of no list.
SchoolNames ==
    UNION {rankedSchools[tier] : tier \in DOMAIN rankedSchools}
        \cup {"MouPeixunZhongxin", "MouBuzhimingXueyuan", "Mou211Xueyuan", "MouGaozhi"}

\* The degrees extractDegrees hands on: a school of the top tier, one of
\* tier 3 or one of no list, with a degree.
DegreeRecords ==
    {[school |-> s, degree |-> d] :
        s \in {"QinghuaDaxue", "ShenzhenDaxue", "MouBuzhimingXueyuan"},
        d \in {"bachelor", "master", "phd"}}

\* The scores and the analysis generateSuggestions is called with: each total
\* at the threshold of its suggestions or below it, and each field of the
\* analysis on either side of its test; skills holds the number of skills of
\* each bucket.
SuggestionArguments ==
    {[scores |-> [basicInfo |-> [total |-> b], education |-> [total |-> e],
                  skills |-> [total |-> s], experience |-> [total |-> x],
                  achievements |-> [total |-> a]],
      analysis |-> [education |-> edu, experience |-> exp, skills |-> sk,
                    aiEnhanced |-> conf > 0, aiConfidence |-> conf,
                    aiStats |-> [lowCoverage |-> low, lowQuality |-> low]]] :
        b \in {6, 8}, e \in {19, 20}, s \in {11, 12}, x \in {19, 20}, a \in {7, 8},
        edu \in {[hasGPA |-> TRUE, degreeScore |-> 3, schoolLevel |-> 11],
                 [hasGPA |-> FALSE, degreeScore |-> 1, schoolLevel |-> 13]},
        exp \in {[internshipScore |-> 12, projectScore |-> 12, academicScore |-> 2],
                 [internshipScore |-> 10, projectScore |-> 10, academicScore |-> 0]},
        sk \in {[bucket \in DOMAIN skillKeywords2 |-> n] : n \in {0, 2, 3}},
        conf \in {0, 120, 210, 270},
        low \in BOOLEAN}

\* The strings handed to the normalizers of a text.
Strings == UNION {[1..n -> {"a", "sp", "cr", "lf"}] : n \in 0..MaxChars}

\* The calls followed: getSchoolRankScore of a name,
\* scoreEducationDetailed of the analysis of a text with some degrees and
\* with no GPA, or with a GPA of 4.0, recommendJobs of the analysis and the
\* specializations of a text, and generateSuggestions.
Calls ==
    {[method |-> "getSchoolRankScore", schoolName |-> s] : s \in SchoolNames}
    \cup {[method |-> "scoreEducationDetailed", degrees |-> d, gpa |-> g] :
            d \in UNION {[1..n -> DegreeRecords] : n \in 1..MaxDegrees},
            g \in {0, 10000}}
    \cup {[method |-> "recommendJobs", text |-> t] : t \in Texts}
    \cup {[method |-> "generateSuggestions", scores |-> arguments.scores,
           analysis |-> arguments.analysis] : arguments \in SuggestionArguments}
    \cup {[method |-> method, string |-> s] :
            method \in {"preprocessText", "basicTextCleaning", "aiEnhancedTextCleaning"},
            s \in Strings}

CallInit ==
    /\ ScorerInit
    /\ text = << >>
    /\ EnhancerIdle
    /\ AppIdle
    /\ call \in Calls
    /\ returned = [status |-> "none"]

\* this.getSchoolRankScore(schoolName)
GetSchoolRankScore ==
    /\ call.method = "getSchoolRankScore"
    /\ returned' = [status |-> "ok", value |-> getSchoolRankScore(call.schoolName)]
    /\ UNCHANGED <<call, scoringVars, facts, kept, enhancerVars, appVars>>

\* The education part of the analysis analyzeEducation builds for a text
\* with these degrees and this GPA.
educationAnalysis(degrees, gpa) ==
    [education |->
        [educationOf(<< >>, degrees) EXCEPT !.hasGPA = gpa > 0, !.gpa = gpa]]

\* this.scoreEducationDetailed(analysis)
ScoreEducationDetailed ==
    /\ call.method = "scoreEducationDetailed"
    /\ returned' = [status |-> "ok",
                    value |-> scoreEducationDetailed(
                                educationAnalysis(call.degrees, call.gpa))]
    /\ UNCHANGED <<call, scoringVars, facts, kept, enhancerVars, appVars>>

\* this.recommendJobs(analysis, specializations), as scoreResume calls it
RecommendJobs ==
    /\ call.method = "recommendJobs"
    /\ \E r \in {scoreResume(revision, isEnabled, call.text)} :
         returned' = IF r.status # "ok" THEN [status |-> r.status]
                     ELSE [status |-> "ok",
                           value |-> recommendJobs(revision, r.analysis,
                                                   r.specializations)]
    /\ UNCHANGED <<call, scoringVars, facts, kept, enhancerVars, appVars>>

\* this.generateSuggestions(baseScores, analysis)
GenerateSuggestions ==
    /\ call.method = "generateSuggestions"
    /\ returned' = [status |-> "ok",
                    value |-> generateSuggestions(revision, call.scores,
                                                  call.analysis)]
    /\ UNCHANGED <<call, scoringVars, facts, kept, enhancerVars, appVars>>

\* this.preprocessText(text) of AIKeywordExtractor
PreprocessText ==
    /\ call.method = "preprocessText"
    /\ returned' = [status |-> "ok", value |-> preprocessText(call.string)]
    /\ UNCHANGED <<call, scoringVars, facts, kept, enhancerVars, appVars>>

\* ResumeParser.basicTextCleaning(text)
BasicTextCleaning ==
    /\ call.method = "basicTextCleaning"
    /\ returned' = [status |-> "ok", value |-> basicTextCleaning(call.string)]
    /\ UNCHANGED <<call, scoringVars, facts, kept, enhancerVars, appVars>>

\* ResumeParser.aiEnhancedTextCleaning(text)
AiEnhancedTextCleaning ==
    /\ call.method = "aiEnhancedTextCleaning"
    /\ returned' = [status |-> "ok", value |-> aiEnhancedTextCleaning(call.string)]
    /\ UNCHANGED <<call, scoringVars, facts, kept, enhancerVars, appVars>>

CallNext ==
    \/ GetSchoolRankScore \/ ScoreEducationDetailed
    \/ RecommendJobs \/ GenerateSuggestions
    \/ PreprocessText \/ BasicTextCleaning \/ AiEnhancedTextCleaning

CallSpec == CallInit /\ [][CallNext]_vars

(***************************************************************************)
(* Properties                                                              *)
(***************************************************************************)
\* The scores the caller reads off a result.
scores(r) ==
    [baseScore |-> r.baseScore, specializationBonus |-> r.specializationBonus,
     totalScore |-> r.totalScore, categoryScores |-> r.categoryScores,
     specializations |-> r.specializations]

\* C1: in every result of scoreResume the total of basicInfo is at most 10,
\* the total of skills at most 20 and the total of achievements at most 15.
C1_CategoryCaps ==
    result.status = "ok" =>
        /\ result.categoryScores.basicInfo.total <= 10
        /\ result.categoryScores.skills.total <= 20
        /\ result.categoryScores.achievements.total <= 15

\* A result whose basic-info count, doubled, is above the cap it was cut to.
C1_Witness ==
    /\ result.status = "ok"
    /\ result.analysis.basicInfo.count * 2 > 10
    /\ result.categoryScores.basicInfo.total = 10

\* C2: in every result each achievements detail is at most 5 and each
\* experience detail at most 10, every category total is the (capped) sum of
\* its details alone, and baseScore is the sum of the category totals: no
\* extra score is part of a total or of baseScore.
C2_CappedDetails ==
    result.status = "ok" =>
        LET cs == result.categoryScores
            exp == cs.experience.details
            ach == cs.achievements.details
            skillDetails == cs.skills.details
        IN  /\ \A k \in DOMAIN ach : ach[k] <= 5
            /\ DOMAIN ach = {"leadership", "honor", "competition", "certificate"}
            /\ \A k \in DOMAIN exp : exp[k] <= 10
            /\ DOMAIN exp = {"internship", "project", "academic"}
            /\ cs.experience.total
                = Min(exp.internship + exp.project + exp.academic, 30)
            /\ cs.achievements.total
                = Min(ach.leadership + ach.honor + ach.competition
                        + ach.certificate, 15)
            /\ cs.skills.total = Min(SetSum(skillDetails, DOMAIN skillDetails), 20)
            /\ cs.education.total
                = cs.education.details.school + cs.education.details.academic
                    + cs.education.details.degree
            /\ result.baseScore
                = cs.basicInfo.total + cs.education.total + cs.skills.total
                    + cs.experience.total + cs.achievements.total

\* A result with extra score kept for experience and for achievements.
C2_Witness ==
    /\ result.status = "ok"
    /\ result.analysis.experience.internshipExtraScore > 0
    /\ result.categoryScores.experience.details.internship = 10
    /\ result.categoryScores.achievements.extraScore.competition > 0
    /\ result.categoryScores.achievements.details.competition = 5

\* C3: in every result specializationBonus is the sum of the bonuses of the
\* specializations returned, and totalScore is baseScore plus
\* specializationBonus.
C3_TotalIsBasePlusBonus ==
    result.status = "ok" =>
        /\ result.specializationBonus
            = SeqSum([i \in DOMAIN result.specializations |->
                        result.specializations[i].bonus])
        /\ result.totalScore = result.baseScore + result.specializationBonus

\* A result with several specializations and a bonus.
C3_Witness ==
    /\ result.status = "ok"
    /\ Len(result.specializations) >= 2
    /\ result.specializationBonus > 0

\* C4: scoreResume completes without throwing for every text, the empty text
\* included, with or without an extraction result.
C4_NeverThrows == result.status # "threw"

\* C5: two scoreResume calls on the same text return the same scores,
\* whatever ran between them (toggles of the AI mode included).
C5_SameTextSameScores ==
    [][(/\ result.status = "ok"
        /\ result'.status = "ok"
        /\ result'.analysis.originalText = result.analysis.originalText)
            => scores(result') = scores(result)]_vars

\* C6: every analysis that was started finishes, whether the sentence encoder
\* is missing, fails or never answers: analyzeResume of the page leaves
\* isProcessing, and enhanceResumeAnalysis returns.
C6_AnalysisFinishes ==
    /\ isProcessing ~> ~isProcessing
    /\ (enhance.at \in {"embedding", "data"}) ~> (enhance.at = "returned")

\* C7: one more internship line ("实习。") added to a text lowers neither the
\* internship detail of experience nor totalScore of the result scoreResume
\* returns for it.
C7_InternshipMonotone ==
    [][AddInternship =>
        LET before == scoreResume(revision, isEnabled, text)
            after == scoreResume(revision, isEnabled, text')
        IN  (before.status = "ok" /\ after.status = "ok") =>
                /\ after.categoryScores.experience.details.internship
                    >= before.categoryScores.experience.details.internship
                /\ after.totalScore >= before.totalScore]_vars

\* A confidence is a double in [0, 1].
inUnitInterval(confidence) ==
    IF revision = 1 THEN confidence >= 0 /\ confidence <= 300
    ELSE /\ confidence.units >= 0
         /\ confidence.units <= 300
         /\ confidence.units = 300 => confidence.ulps <= 0
         /\ confidence.units = 0 => confidence.ulps >= 0

\* The cap of the bonus of every dimension: of revisions 1 and 3, and of
\* revision 2.
bonusCaps ==
    IF revision = 2
    THEN [programming |-> 6, data |-> 5, design |-> 5, engineering |-> 4,
          languages |-> 4, business |-> 3, arts |-> 4, internship |-> 6,
          project |-> 6, academic |-> 6, achievement |-> 6]
    ELSE [programming |-> 5, data |-> 4, design |-> 4, engineering |-> 4,
          arts |-> 4, internship |-> 5, project |-> 5, academic |-> 5,
          achievement |-> 5]

atLeastEightTenths(similarity) == similarity.num * 10 >= 8 * similarity.den

\* C9: after intelligentDeduplication, two kept items of one category with
\* the same subcategory have texts of similarity less than 0.8.
C9_KeptFactsDiffer ==
    \A category \in DOMAIN kept :
        \A i \in DOMAIN kept[category] : \A j \in DOMAIN kept[category] :
            (i # j /\ kept[category][i].subcategory = kept[category][j].subcategory)
                => ~atLeastEightTenths(
                        calculateTextSimilarity(kept[category][i].text,
                                                kept[category][j].text))

\* A deduplication that kept two items of one subcategory whose texts share
\* a word.
C9_Witness ==
    \E category \in DOMAIN kept :
        \E i \in DOMAIN kept[category] : \E j \in DOMAIN kept[category] :
            /\ i # j
            /\ kept[category][i].subcategory = kept[category][j].subcategory
            /\ calculateTextSimilarity(kept[category][i].text,
                                       kept[category][j].text).num > 0

\* The items the analysis detected, address and intention taken as one.
distinctItems(info) ==
    trueCount([name |-> info.name, phone |-> info.phone, email |-> info.email,
               addressOrIntention |-> info.address \/ info.intention,
               website |-> info.website, social |-> info.social,
               birthday |-> info.birthday, political |-> info.political])

\* C10: the total of basicInfo is min(10, 2 * the number of distinct items
\* detected), each item counted once however often and by whichever path it
\* was found.
C10_BasicInfoCountsItemsOnce ==
    result.status = "ok" =>
        result.categoryScores.basicInfo.total
            = Min(10, 2 * distinctItems(result.analysis.basicInfo.info))

\* The entries of a specializations list for one dimension.
entriesOf(specializations, type) ==
    SelectSeq(specializations, LAMBDA s : s.type = type)

\* C11: detectSpecialization returns no programming specialization when the
\* programming bucket holds exactly 4 keywords, and one programming
\* specialization with bonus exactly 1 when it holds exactly 5.
C11_ProgrammingThreshold ==
    result.status = "ok" =>
        LET n == Cardinality(result.analysis.skills.programming)
            entries == entriesOf(result.specializations, "programming")
        IN  /\ n = 4 => entries = << >>
            /\ n = 5 => Len(entries) = 1 /\ entries[1].bonus = 1

\* A result for a text with exactly 5 programming keywords, with its entry.
C11_Witness ==
    /\ result.status = "ok"
    /\ Cardinality(result.analysis.skills.programming) = 5
    /\ entriesOf(result.specializations, "programming") # << >>

\* The sum of the bonuses of the entries of a specializations list for the
\* dimensions of a set.
bonusOf(specializations, types) ==
    SeqSum([i \in DOMAIN specializations |->
                IF specializations[i].type \in types
                THEN specializations[i].bonus ELSE 0])

\* min(floor(extra / 3), 5) of one extra score.
bonusOfExtra(extra) == Min(extra \div 3, 5)

\* C12: for internship, project and academic experience and for each of the
\* achievements sub-dimensions leadership, honor, competition and certificate,
\* the bonus is min(floor(extra / 3), 5) of the extra of that sub-dimension
\* alone, and the bonus of a result for experience and achievements is the
\* sum of these.  (The extra scores of experience are kept in half points.)
C12_BonusPerSubDimension ==
    result.status = "ok" =>
        LET experience == result.analysis.experience
            extraScore == result.analysis.achievements.extraScore
            list == result.specializations
        IN  /\ bonusOf(list, {"internship"})
                = bonusOfExtra(experience.internshipExtraScore \div 2)
            /\ bonusOf(list, {"project"})
                = bonusOfExtra(experience.projectExtraScore \div 2)
            /\ bonusOf(list, {"academic"})
                = bonusOfExtra(experience.academicExtraScore \div 2)
            /\ bonusOf(list, {"achievement"})
                = bonusOfExtra(extraScore.leadership) + bonusOfExtra(extraScore.honor)
                    + bonusOfExtra(extraScore.competition)
                    + bonusOfExtra(extraScore.certificate)

\* C13: when two or more degrees were detected, the school score is
\* round(0.5 * the tier score of the school of the lowest-level degree
\* + 0.5 * the tier score of the school of the highest-level degree), in the
\* order associate < bachelor < master < phd: a bachelor at a tier-3 school
\* (5) and a master at a top-tier school (15), or the reverse, give 10.
C13_SchoolScoreAveragesLowestAndHighest ==
    result.status = "ok" =>
        LET education == result.analysis.education
            degrees == education.degrees
            D == DOMAIN degrees
            lowest == {i \in D : \A j \in D :
                        degreeOrder(degrees[i].degree) <= degreeOrder(degrees[j].degree)}
            highest == {i \in D : \A j \in D :
                        degreeOrder(degrees[i].degree) >= degreeOrder(degrees[j].degree)}
        IN  Len(degrees) >= 2 =>
                \E lo \in lowest : \E hi \in highest :
                    /\ lo # hi
                    /\ education.schoolLevel
                        = (getSchoolRankScore(degrees[lo].school)
                            + getSchoolRankScore(degrees[hi].school) + 1) \div 2

\* A result with a bachelor of a top-tier school and a master of a tier-3
\* school, and the school score 10.
C13_Witness ==
    /\ result.status = "ok"
    /\ LET education == result.analysis.education
           degrees == education.degrees
       IN  /\ Len(degrees) = 2
           /\ degrees[1].degree = "bachelor"
           /\ getSchoolRankScore(degrees[1].school) = 15
           /\ degrees[2].degree = "master"
           /\ getSchoolRankScore(degrees[2].school) = 5
           /\ education.schoolLevel = 10

\* The degrees a text states, each with its school: "清华大学 计算机专业 本科"
\* (edu1) and "深圳大学 软件工程 硕士" (edu2).
statedDegrees(t) ==
    {[school |-> "QinghuaDaxue", degree |-> "bachelor"] : i \in {j \in DOMAIN t : t[j] = "edu1"}}
    \cup {[school |-> "ShenzhenDaxue", degree |-> "master"] : i \in {j \in DOMAIN t : t[j] = "edu2"}}

\* The value of one degree.
degreeValue(degree) == Lookup([phd |-> 5, master |-> 3, bachelor |-> 1], degree, 0)

\* C14: the degree score is min(5, v + (d - 1)), where v is the value of the
\* highest degree and d the number of distinct degrees of the text: a degree
\* mentioned or matched more than once counts once.
C14_DegreeScoreCountsDistinctDegrees ==
    result.status = "ok" =>
        LET stated == statedDegrees(result.analysis.originalText)
            d == Cardinality(stated)
            v == CHOOSE x \in {degreeValue(s.degree) : s \in stated} :
                    \A s \in stated : degreeValue(s.degree) <= x
        IN  result.analysis.education.degreeScore
                = (IF d = 0 THEN 0 ELSE Min(5, v + (d - 1)))

\* The tiers that list a name.
tiersOf(schoolName) ==
    {tier \in DOMAIN rankedSchools : schoolName \in rankedSchools[tier]}

\* C15: for every full name and every alias of a tier list, getSchoolRankScore
\* returns the score of the tier that lists the name (15, 13, 11, 9, 7 or 5);
\* for the name of an institution no list matches, without a prestige or a
\* vocational marker, it returns 2 or 3.
C15_ListedSchoolScoresItsTier ==
    (call.method = "getSchoolRankScore" /\ returned.status = "ok") =>
        /\ \A tier \in tiersOf(call.schoolName) : returned.value = schoolRanks[tier]
        /\ call.schoolName \in {"MouPeixunZhongxin", "MouBuzhimingXueyuan"} =>
                returned.value \in {2, 3}

\* The degrees above the bachelor's among some degrees.
advancedDegrees(degrees) ==
    {i \in DOMAIN degrees : degrees[i].degree \in {"master", "phd"}}

\* C16: the education total is the sum school + academic + degree, not cut
\* to 25, and a total above 25 happens: for some text with a second advanced
\* degree the education total is more than 25.
C16_EducationOverscore ==
    /\ (call.method = "scoreEducationDetailed" /\ returned.status = "ok") =>
            returned.value.total
                = returned.value.details.school + returned.value.details.academic
                    + returned.value.details.degree
    /\ \E c \in Calls :
            /\ c.method = "scoreEducationDetailed"
            /\ Cardinality(advancedDegrees(c.degrees)) >= 2
            /\ scoreEducationDetailed(educationAnalysis(c.degrees, c.gpa)).total > 25

C18_ClosingMessageAlone ==
    (call.method = "generateSuggestions" /\ returned.status = "ok") =>
        ((\E i \in DOMAIN returned.value : returned.value[i] = "closing")
            => returned.value = <<"closing">>)

\* A call that returned the closing message.
C18_Witness ==
    /\ call.method = "generateSuggestions"
    /\ returned.status = "ok"
    /\ returned.value = <<"closing">>

\* A call of handleFileUpload or analyzeResume: by the user or by a timer
callArrives == HandleFileUpload \/ AnalyzeResume \/ AutoAnalyze

\* C19: at most one of the operations handleFileUpload and analyzeResume is
\* in progress at any time, and a call that arrives while isProcessing is
\* true returns without parsing, without analysing and without changing
\* isProcessing or currentAnalysis.
C19_OneOperationInProgress ==
    /\ [](uploading + analyzing <= 1)
    /\ [][(isProcessing /\ callArrives) =>
            /\ toast' = "info"
            /\ UNCHANGED <<uploading, analyzing, isProcessing, currentAnalysis,
                           text, result>>]_vars

\* An analysis asked for during an upload was turned away.
C19_Witness == toast = "info" /\ isProcessing /\ uploading = 1 /\ analyzing = 0

\* C20: every call that set isProcessing to true sets it to false in the
\* end, whether the parse or the analysis succeeds or throws, provided the
\* awaited parse or analysis settles; once no operation is in progress a new
\* upload or analysis is accepted.
C20_ProcessingEnds ==
    /\ isProcessing ~> ~isProcessing
    /\ []((uploading = 0 /\ analyzing = 0) => ~isProcessing)
    /\ [][(~isProcessing /\ AnalyzeResume /\ textLength(text) >= 50) =>
            analyzing' = 1]_vars

\* An analysis was accepted after an upload or an analysis that failed.
C20_Witness == toast = "error" /\ analyzing = 1 /\ timers = 0 /\ currentAnalysis.status = "none"

\* C21: the calling layer never passes to scoreResume a text whose trimmed
\* length is below 50 characters: analyzeResume turns such a text away with
\* a warning, and handleFileUpload fails a file whose text is that short; in
\* both cases no analysis starts and isProcessing is false afterwards.
C21_ShortTextNeverScored ==
    /\ [](analyzing > 0 => textLength(text) >= 50)
    /\ [][(~isProcessing /\ textLength(text) < 50 /\ (AnalyzeResume \/ AutoAnalyze)) =>
            (toast' = "warning" /\ analyzing' = 0 /\ ~isProcessing'
                /\ result' = result /\ currentAnalysis' = currentAnalysis)]_vars
    /\ [][(uploading' < uploading) =>
            /\ ~isProcessing' /\ analyzing' = analyzing
            /\ \/ timers' = timers + 1 /\ textLength(text') >= 50
               \/ timers' = timers /\ text' = text /\ toast' = "error"]_vars
    /\ [][(result' # result) => textLength(text) >= 50]_vars

\* A click on a text of fewer than 50 characters was turned away.
C21_Witness == toast = "warning" /\ ~isProcessing /\ analyzing = 0 /\ textLength(text) < 50

\* C22: for every skill bucket a specialization is awarded exactly when the
\* number of keywords of the bucket exceeds the cap scoreSkillsDetailed
\* applies to it (the detail of the bucket is then the cap), and its bonus is
\* min(number - cap, bonus cap of the bucket), the bonus caps being 3 to 6.
C22_SkillBonusIsMarginOverCap ==
    result.status = "ok" =>
        \A bucket \in DOMAIN result.categoryScores.skills.details :
            LET n == Cardinality(result.analysis.skills[bucket])
                cap == result.categoryScores.skills.details[bucket]
                entries == entriesOf(result.specializations, bucket)
            IN  /\ n > cap <=> entries # << >>
                /\ \A i \in DOMAIN entries :
                    \/ entries[i].bonus = n - cap
                    \/ entries[i].bonus < n - cap /\ entries[i].bonus \in 3..6

\* C23: a tally of experience or achievements that several paths detect is
\* the largest of the counts of the paths, never their sum.  Stated for the
\* scorers that read the text by regular expressions only: the internships
\* and the projects, and the chairmen, whom two expressions count, the
\* second of which matches every mention the first one matches.
C23_TallyIsLargestCount ==
    (result.status = "ok" /\ ~isEnabled) =>
        /\ revision = 1 =>
            /\ result.analysis.experience.internshipCount
                = Max(matchCount("intern", text), matchCount("companyIntern", text))
            /\ result.analysis.experience.projectCount
                = Max(matchCount("project", text), matchCount("devProject", text))
        /\ result.analysis.achievements.details.chairman
            = Max(matchCount("chairmanOrg", text), matchCount("chairmanAny", text))

\* The weighted count of the papers of a text, before any cap.
weightedPapers(t) ==
    matchCount("nature", t) * 5 + matchCount("jcr1", t) * 4
        + matchCount("sci", t) * 3 + matchCount("ei", t) * 2 + matchCount("chinese", t)

\* C24: for each sub-score of experience (internship, project, academic) the
\* capped score is min(uncapped weighted score, 10) and the extra is
\* max(0, uncapped weighted score - 10), so the two add up to the uncapped
\* weighted score.  Scores are in half points.
C24_CappedPlusExtraIsUncapped ==
    result.status = "ok" =>
        LET e == result.analysis.experience
            internship == e.internshipCount * (IF e.hasCompanyName THEN 6 ELSE 5)
            project == e.projectCount * (IF e.hasAchievement THEN 6 ELSE 5)
            academic == 2 * weightedPapers(text)
        IN  /\ e.internshipScore = Min(internship, 20)
            /\ e.internshipExtraScore = Max(0, internship - 20)
            /\ e.projectScore = Min(project, 20)
            /\ e.projectExtraScore = Max(0, project - 20)
            /\ e.academicScore = Min(academic, 20)
            /\ e.academicExtraScore = Max(0, academic - 20)
            /\ e.academicScore + e.academicExtraScore = academic

\* One item and the same; a keyword is a name or the index of a pattern.
sameItem(a, b) ==
    /\ a.category = b.category /\ a.subcategory = b.subcategory
    /\ a.text = b.text /\ a.confidence = b.confidence /\ a.method = b.method
    /\ ToString(a.keyword) = ToString(b.keyword)

\* The places, among the items pushed, of the items that are one and the same
\* as the i-th of a list, and how many of the list up to the i-th are.
places(items, i) == {k \in DOMAIN facts : sameItem(facts[k], items[i])}
copies(items, i) == Cardinality({j \in 1..i : sameItem(items[j], items[i])})

\* The place of the i-th item of a list among the items pushed, its
\* discovery order: items that are one and the same are taken in turn.
discovered(items, i) ==
    CHOOSE k \in places(items, i) :
        Cardinality({l \in places(items, i) : l <= k}) = copies(items, i)

\* C25: intelligentDeduplication returns, category by category, the kept
\* items by non-increasing confidence, items of equal confidence in the
\* order of their discovery, and every removed item is a duplicate
\* (similarity above 0.8, or the same subcategory and similarity above 0.6)
\* of a kept item of its category whose confidence is at least as high.
C25_KeptInOrderRemovedAreDuplicates ==
    kept # NoKept =>
        \A category \in DOMAIN kept :
            LET items == kept[category]
            IN  /\ \A i \in DOMAIN items :
                        Cardinality(places(items, i)) >= copies(items, i)
                /\ \A i \in DOMAIN items : \A j \in DOMAIN items :
                    i < j =>
                        /\ ~greater(items[j].confidence, items[i].confidence)
                        /\ items[i].confidence = items[j].confidence
                                => discovered(items, i) < discovered(items, j)
                /\ \A k \in DOMAIN facts :
                    (facts[k].category = category
                            /\ \A i \in DOMAIN items : ~sameItem(facts[k], items[i])) =>
                        \E i \in DOMAIN items :
                            /\ ~greater(facts[k].confidence, items[i].confidence)
                            /\ LET similarity == calculateTextSimilarity(
                                                    facts[k].text, items[i].text)
                               IN  \/ exceeds(similarity, 8)
                                   \/ /\ facts[k].subcategory = items[i].subcategory
                                      /\ exceeds(similarity, 6)

\* A deduplication of the items of a text that removed an item.
C25_Witness ==
    /\ text # << >>
    /\ kept # NoKept
    /\ \E k \in DOMAIN facts :
            \A i \in DOMAIN kept[facts[k].category] :
                ~sameItem(facts[k], kept[facts[k].category][i])

\* The suggestions of generateSuggestions that belong to a category.
suggestionsOf ==
    [basicInfo |-> {"basicInfo"},
     education |-> {"gpa", "degree", "school"},
     skills |-> {"skills", "arts", "emptyBuckets", "skillDetail"},
     experience |-> {"internship", "project", "academic"},
     achievements |-> {"competition", "leadership", "certificate"}]

\* The total below which generateSuggestions looks at a category.
suggestionThreshold ==
    [basicInfo |-> 8, education |-> 20, skills |-> 12, experience |-> 20,
     achievements |-> 8]

\* C26: for every category whose total is below the threshold
\* generateSuggestions uses for it (basic info 8, education 20, skills 12,
\* experience 20, achievements 8) the returned list holds at least one
\* suggestion of that category.
C26_SuggestionForEveryLowCategory ==
    (call.method = "generateSuggestions" /\ returned.status = "ok") =>
        \A category \in DOMAIN suggestionThreshold :
            call.scores[category].total < suggestionThreshold[category] =>
                \E i \in DOMAIN returned.value :
                    returned.value[i] \in suggestionsOf[category]

\* C27: recommendJobs never returns an empty list; when no skill bucket, no
\* experience and no specialization gave an entry it returns exactly one
\* entry, for a management trainee: the one of match 75 if the school level
\* is 11 or more, the one of match 60 otherwise.  A match is in half points.
C27_TraineeWhenNoOtherJob ==
    (call.method = "recommendJobs" /\ returned.status = "ok") =>
        LET r == scoreResume(revision, isEnabled, call.text)
            skills == r.analysis.skills
            noEntry ==
                /\ \A bucket \in DOMAIN r.categoryScores.skills.details :
                        skills[bucket] = {}
                /\ r.analysis.experience.internshipScore = 0
                /\ r.analysis.experience.academicScore = 0
                /\ r.specializations = << >>
        IN  /\ returned.value # << >>
            /\ noEntry =>
                returned.value
                    = IF r.analysis.education.schoolLevel >= 11
                      THEN <<[category |-> "TopCompanyTrainee", match |-> 150]>>
                      ELSE <<[category |-> "ManagementTrainee", match |-> 120]>>

\* The management trainee of a well-known company was recommended alone.
C27_Witness ==
    /\ call.method = "recommendJobs"
    /\ returned.status = "ok"
    /\ returned.value = <<[category |-> "TopCompanyTrainee", match |-> 150]>>

\* C28: at most one load of the model is in flight at any time: loadModel
\* called during a load or once the model is loaded starts no load;
\* isLoading is true exactly while a load is in flight, and false once it
\* has resolved or rejected; and loadModel called after a load that failed
\* starts a new one.
C28_OneModelLoad ==
    /\ [](loads <= 1)
    /\ [](isLoading <=> loads = 1)
    /\ [][(LoadModel /\ (isLoading \/ model # "null")) =>
            UNCHANGED <<loads, isLoading, model>>]_vars
    /\ [][(loads' < loads) => ~isLoading']_vars
    /\ [][((LoadModel \/ (ToggleAIMode /\ ~aiEnabled))
                /\ ~isLoading /\ model = "null") =>
            (loads' = 1 /\ isLoading')]_vars

\* A load is in flight with the AI mode switched off: the next toggleAIMode
\* calls loadModel during the load.
C28_Witness == loads = 1 /\ isLoading /\ model = "null" /\ ~aiEnabled

\* The positions, among the lines of a string, of the lines that are not
\* blank.
nonBlank(lines) == {i \in DOMAIN lines : \E k \in DOMAIN lines[i] : lines[i][k] = "a"}

\* The lines of a string whose line breaks are CRLF, CR or LF.
linesOf(s) == split(replaceChar(replacePair(s, "cr", "lf", "lf"), "cr", "lf"))

\* C29: a normalizer of a text converts the line breaks and removes none:
\* the non-blank lines of the input are as many lines of the output, and two
\* non-blank lines that follow each other in the output have one or two LF
\* characters between them.
C29_LineBreaksKept ==
    (call.method \in {"preprocessText", "basicTextCleaning", "aiEnhancedTextCleaning"}
        /\ returned.status = "ok") =>
        LET lines == split(returned.value)
        IN  /\ Cardinality(nonBlank(lines)) = Cardinality(nonBlank(linesOf(call.string)))
            /\ \A i, j \in nonBlank(lines) :
                    (i < j /\ \A k \in nonBlank(lines) : k <= i \/ k >= j) => j - i <= 2

\* The confidence, in units of 1/300, the terms of C30 give a matched text
\* of a pattern that is the rank-th of its list counted from the end.
sumOfTerms(matchText, rank) ==
    Min(300, 180 + 15 * rank
                + (IF Length[matchText] >= 5 /\ Length[matchText] <= 30 THEN 30 ELSE 0)
                + (IF test("at", matchText) THEN 60 ELSE 0)
                + (IF test("phone", matchText) THEN 60 ELSE 0)
                + (IF test("year", matchText) THEN 30 ELSE 0)
                + (IF test("rankWord", matchText) THEN 45 ELSE 0))

\* C30: each fact of the exact pattern matching has the confidence
\* min(1.0, 0.6 + 0.05 x the rank of a pattern that matched its text, counted
\* from the end of the list of patterns, + 0.1 for a text of 5 to 30
\* characters + 0.2 for an @ + 0.2 for a mobile number of 11 digits + 0.1 for
\* a year of 4 digits + 0.15 for a word of rank), and no other term.  The
\* confidence is compared as the decimal sum, whatever the rounding of the
\* double; a year is one the code takes for one (20 and two digits).
C30_PatternConfidenceIsSumOfTerms ==
    [][(facts = << >> /\ text' # << >>) =>
        \A i \in DOMAIN facts' :
            facts'[i].method = "exact_pattern" =>
                \E line \in DOMAIN text' :
                    \E n \in DOMAIN Lookup(patternTable, text'[line], << >>) :
                        LET match == patternTable[text'[line]][n]
                            config == keywordDatabase[match.slot]
                        IN  /\ match.text = facts'[i].text
                            /\ config.category = facts'[i].category
                            /\ config.subcategory = facts'[i].subcategory
                            /\ facts'[i].confidence.units
                                = sumOfTerms(match.text,
                                             config.patterns - match.patternIndex)]_vars

=============================================================================
